---- MODULE Spec2Model ----
(***************************************************************************)
(* Storekeeper hub / MES operations of the isnack app: the fan-out of one  *)
(* physical pick into per-work-order staging transfers                     *)
(* (create_consolidated_transfers), the remaining-requirement and          *)
(* stage-status queries it rests on, the closure of ended work orders     *)
(* (close_production), the operations that report or gate on the stage     *)
(* status (get_queue, get_line_queue, set_work_order_state), the          *)
(* consumption of scanned material (scan_material), the batch codes        *)
(* (generate_next_batch_code), the end and completion of a work order      *)
(* (end_work_order, complete_work_order) and the operators of a Job Card   *)
(* (claim_job_card, leave_job_card, set_card_status).                      *)
(*                                                                         *)
(* Quantities are integers counted in units of 1/Quantum of the quantity   *)
(* precision step (0.001): a float quantity q of the code is the integer   *)
(* q * 1000 * Quantum.  Arithmetic is exact (no binary floating noise).    *)
(* The database is the committed state; a request works on the committed   *)
(* state plus its own uncommitted writes (tx), which become visible to     *)
(* others when the request returns and are discarded when it throws.       *)
(***************************************************************************)
EXTENDS Integers, Sequences, FiniteSets, TLC

VARIABLES workOrder, bom, lineWarehouseMap, factorySettings, itemMeta,
          ledger, cct, cp, queue, cache, scan, batch, batch_code,
          jobCard, jcr

vars ==
  <<workOrder, bom, lineWarehouseMap, factorySettings, itemMeta, ledger, cct,
    cp, queue, cache, scan, batch, batch_code, jobCard, jcr>>

\* the cache of scan keys and the scan_material requests
scanVars == <<cache, scan>>

\* the Batch table and the batch code last returned to the operator screen
batchVars == <<batch, batch_code>>

\* the Job Card with its time logs and the claim_job_card requests
cardVars == <<jobCard, jcr>>

\* master data and settings, which no modelled request writes
cfgVars == <<bom, lineWarehouseMap, factorySettings, itemMeta>>

dbVars == <<workOrder, cfgVars>>

----------------------------------------------------------------------------
(* Bounds of the model *)

\* largest quantity of a cart row, in units
MaxCartQty == 3

\* largest BOM quantity per unit of output, in units
MaxPerUnit == 2

\* largest quantity of a batch of a cart row, in units
MaxBatchQty == 3

\* largest quantity of a cart row that carries batches, in units
MaxPoolQty == 6

\* planned quantities of the work orders
WoQtys == {1, 2}

\* numbers of rows of a cart
CartLengths == {0, 1, 2}

----------------------------------------------------------------------------
(* Values *)

NULL == "NULL"

\* an unset (NULL) datetime; real timestamps are 1, 2, ...
NoDate == 0

\* planned start dates: unset or set
PlannedDates == {NoDate, 1}

\* creation timestamps
CreationTimes == {1, 2}

WOs == {"WO-1", "WO-2"}

Items == {"X", "Y"}

ItemOrder == <<"X", "Y">>

Lines == {"L1"}

Calls == {"c1", "c2"}

BatchNos == <<"B1", "B2", "B3">>

\* units per step of the quantity precision: quantum = 10^-3 is Quantum units
Quantum == 3

\* the stop tolerance 1e-9, in whole units (1e-9 is below one unit)
StopTol == 0

EmptyMap == [x \in {} |-> 0]

Get(m, k, d) == IF k \in DOMAIN m THEN m[k] ELSE d

Put(m, k, v) == [x \in (DOMAIN m) \cup {k} |-> IF x = k THEN v ELSE m[x]]

Min(a, b) == IF a <= b THEN a ELSE b

Max(a, b) == IF a >= b THEN a ELSE b

RECURSIVE SumSeq(_)
SumSeq(s) == IF s = <<>> THEN 0 ELSE Head(s) + SumSeq(Tail(s))

RECURSIVE SumOver(_, _)
SumOver(S, f) ==
  IF S = {} THEN 0
  ELSE LET x == CHOOSE y \in S : TRUE IN f[x] + SumOver(S \ {x}, f)

SeqsOfLen(S, L) == UNION {[1..k -> S] : k \in L}

----------------------------------------------------------------------------
(* Rounding *)

\* ceiling of num/den for den > 0
CeilDiv(num, den) == IF num >= 0 THEN (num + den - 1) \div den ELSE -((-num) \div den)

\* _round_up_qty(value, precision=3) for value = num/den units:
\* quantize to a multiple of the quantum, rounding towards +infinity
_round_up_qty(num, den) == Quantum * CeilDiv(num, den * Quantum)

\* flt(value, qty_precision): round to the nearest multiple of the quantum
flt(value) == Quantum * ((2 * value + Quantum) \div (2 * Quantum))

----------------------------------------------------------------------------
(* Master data and ledger queries (storekeeper_hub.py helpers) *)

coalesce(a, b) == IF a # NULL THEN a ELSE b

\* wo.wip_warehouse or ""
_wip_for(wo) == IF wo.wip_warehouse # NULL THEN wo.wip_warehouse ELSE ""

\* Factory Line of a Work Order: its own field, else the BOM default
\* (the modelled Work Orders carry no operations)
_wo_line(wo) ==
  IF wo.custom_factory_line # NULL THEN wo.custom_factory_line
  ELSE IF wo.bom_no # NULL /\ bom.custom_default_factory_line # NULL
       THEN bom.custom_default_factory_line
  ELSE NULL

\* staging warehouse of the Line Warehouse Map row of the order's line, or NULL
_staging_for(wo) ==
  IF DOMAIN lineWarehouseMap = {} THEN NULL
  ELSE LET line == _wo_line(wo) IN
       IF line = NULL THEN NULL
       ELSE IF line \in DOMAIN lineWarehouseMap
            THEN lineWarehouseMap[line].staging_warehouse
       ELSE NULL

\* target_wh = _staging_for(wo) or _wip_for(wo); "" when neither is set
TargetWh(wo) ==
  IF _staging_for(wo) # NULL THEN _staging_for(wo) ELSE _wip_for(wo)

\* required qty per item_code: BOM Explosion Item rows * WO.qty; the rows are
\* selected by parent = wo.bom_no, which matches no row when bom_no is unset
_required_map_for_wo(w) ==
  [i \in {j \in Items : workOrder[w].bom_no # NULL /\ bom.explosion[j] > 0} |->
      bom.explosion[i] * workOrder[w].qty]

\* required qty per item_code over the BOM Item rows without a BOM of their own
_required_leaf_map_for_wo(w) ==
  [i \in {j \in Items : /\ workOrder[w].bom_no # NULL
                         /\ bom.item[j].qty > 0 /\ ~bom.item[j].has_bom} |->
      bom.item[i].qty * workOrder[w].qty]

TransferPurposes == {"Material Transfer for Manufacture", "Material Transfer"}

\* every Stock Entry Detail row of the submitted entries, as <<entry, line>>
AllLines(led) == UNION {{<<e, l>> : l \in DOMAIN led[e].items} : e \in DOMAIN led}

\* the rows the transferred query selects
TransferredLines(led, w, target_wh) ==
  {r \in AllLines(led) :
    LET e == r[1]
        l == r[2]
    IN
      /\ led[e].purpose \in TransferPurposes
      /\ led[e].work_order = w
      /\ coalesce(led[e].items[l].t_warehouse, led[e].to_warehouse) = target_wh}

\* select item_code, sum(qty) ... group by item_code
SumLinesBy(led, rows) ==
  LET itemsHit == {led[r[1]].items[r[2]].item_code : r \in rows}
      qtyOf == [r \in rows |-> led[r[1]].items[r[2]].qty]
  IN [i \in itemsHit |->
        SumOver({r \in rows : led[r[1]].items[r[2]].item_code = i}, qtyOf)]

\* already-transferred qty per item_code into target_wh for this WO
_transferred_map_for_wo(led, w, target_wh) ==
  IF target_wh = "" THEN EmptyMap
  ELSE SumLinesBy(led, TransferredLines(led, w, target_wh))

\* a remaining map that keeps the items with nothing left, at zero
_remaining_map_for_wo_KeepsZero(led, w) ==
  LET target_wh == TargetWh(workOrder[w])
      req == _required_map_for_wo(w)
      have == IF target_wh # "" THEN _transferred_map_for_wo(led, w, target_wh)
              ELSE EmptyMap
  IN [i \in DOMAIN req |-> Max(0, req[i] - Get(have, i, 0))]

\* remaining qty per item_code for staging; items with nothing left are left out
_remaining_map_for_wo(led, w) ==
  LET target_wh == TargetWh(workOrder[w])
      req == _required_map_for_wo(w)
      have == IF target_wh # "" THEN _transferred_map_for_wo(led, w, target_wh)
              ELSE EmptyMap
      rem(i) == Max(0, req[i] - Get(have, i, 0))
  IN [i \in {j \in DOMAIN req : rem(j) > 0} |-> rem(i)]

\* a status that looks at the transfers of the order into any warehouse
_stage_status_AnyWarehouse(led, w) ==
  LET rows == {r \in AllLines(led) :
                 led[r[1]].purpose \in TransferPurposes /\ led[r[1]].work_order = w}
      req == _required_leaf_map_for_wo(w)
      have_map == SumLinesBy(led, rows)
      partial == \E i \in DOMAIN req : flt(Get(have_map, i, 0)) < flt(req[i])
  IN IF rows = {} THEN "Not Staged"
     ELSE IF partial THEN "Partial"
     ELSE "Staged"

\* a status with the outcomes of the coverage test exchanged
_stage_status_Swapped(led, w) ==
  LET target_wh == TargetWh(workOrder[w])
      rows == TransferredLines(led, w, target_wh)
      req == _required_leaf_map_for_wo(w)
      have_map == SumLinesBy(led, rows)
      partial == \E i \in DOMAIN req : flt(Get(have_map, i, 0)) < flt(req[i])
  IN IF target_wh = "" THEN "Not Staged"
     ELSE IF rows = {} THEN "Not Staged"
     ELSE IF partial THEN "Staged"
     ELSE "Partial"

\* 'Not Staged' | 'Partial' | 'Staged' for this WO
_stage_status(led, w) ==
  LET target_wh == TargetWh(workOrder[w])
      rows == TransferredLines(led, w, target_wh)
      req == _required_leaf_map_for_wo(w)
      have_map == SumLinesBy(led, rows)
      partial == \E i \in DOMAIN req : flt(Get(have_map, i, 0)) < flt(req[i])
  IN IF target_wh = "" THEN "Not Staged"
     ELSE IF rows = {} THEN "Not Staged"
     ELSE IF partial THEN "Partial"
     ELSE "Staged"

\* the same ORDER BY, descending
SortKeyLeq_Desc(a, b) ==
  \/ workOrder[a].planned_start_date > workOrder[b].planned_start_date
  \/ /\ workOrder[a].planned_start_date = workOrder[b].planned_start_date
     /\ workOrder[a].creation >= workOrder[b].creation

\* order by planned_start_date asc, creation asc; an unset planned_start_date
\* is NoDate, which sorts before every date as NULL does in the database
SortKeyLeq(a, b) ==
  \/ workOrder[a].planned_start_date < workOrder[b].planned_start_date
  \/ /\ workOrder[a].planned_start_date = workOrder[b].planned_start_date
     /\ workOrder[a].creation <= workOrder[b].creation

Perms(S) ==
  {s \in [1..Cardinality(S) -> S] : \A i, j \in DOMAIN s : i # j => s[i] # s[j]}

\* the orders _order_wos_fifo may return for the selected names: every order
\* the database may produce for the ORDER BY (rows equal on both columns come
\* in any order)
_order_wos_fifo(wo_names) ==
  {s \in Perms(wo_names) :
      \A i, j \in DOMAIN s : i < j => SortKeyLeq(s[i], s[j])}

----------------------------------------------------------------------------
(* create_consolidated_transfers: one request per element of Calls *)

\* batch_info_map[item_code]: the batches list, the single batch_no, or None,
\* as set by the last cart row carrying the item
batch_info_map(items, item) ==
  LET idx == {r \in DOMAIN items : items[r].item_code = item} IN
  IF idx = {} THEN [kind |-> "none", batches |-> <<>>, batch_no |-> NULL]
  ELSE LET row == items[CHOOSE r \in idx : \A q \in idx : q <= r] IN
       IF Len(row.batches) > 0
       THEN [kind |-> "list", batches |-> row.batches, batch_no |-> NULL]
       ELSE IF row.batch_no # NULL
       THEN [kind |-> "single", batches |-> <<>>, batch_no |-> row.batch_no]
       ELSE [kind |-> "none", batches |-> <<>>, batch_no |-> NULL]

BatchQtys(batch_info) == [i \in DOMAIN batch_info |-> batch_info[i].qty]

\* greatest common divisor of a >= 0 and b >= 0
RECURSIVE Gcd(_, _)
Gcd(a, b) == IF b = 0 THEN a ELSE Gcd(b, a % b)

\* the lines appended for one item with a batches list (from batch i on);
\* proportion = batch_qty / total_batch_qty is held in lowest terms
RECURSIVE BatchLines(_, _, _, _, _, _, _)
BatchLines(item_code, rounded_qty, batch_info, total_batch_qty, target_wh, i, allocated_so_far) ==
  IF i > Len(batch_info) THEN <<>>
  ELSE
    LET batch_qty == batch_info[i].qty
        last == (i = Len(batch_info))
        g == Gcd(Max(batch_qty, 0), total_batch_qty)
        line_qty == IF last THEN Max(0, rounded_qty - allocated_so_far)
                    ELSE _round_up_qty(rounded_qty * (batch_qty \div g),
                                       total_batch_qty \div g)
        so_far == IF last THEN allocated_so_far ELSE allocated_so_far + line_qty
        line == [item_code |-> item_code, qty |-> line_qty,
                 t_warehouse |-> target_wh, batch_no |-> batch_info[i].batch_no]
    IN IF batch_qty <= 0
       THEN BatchLines(item_code, rounded_qty, batch_info, total_batch_qty,
                       target_wh, i + 1, allocated_so_far)
       ELSE (IF line_qty > 0 THEN <<line>> ELSE <<>>) \o
            BatchLines(item_code, rounded_qty, batch_info, total_batch_qty,
                       target_wh, i + 1, so_far)

\* the Stock Entry Detail rows appended for one allocated item
ItemLines(item_code, qty, info, target_wh) ==
  LET rounded_qty == _round_up_qty(qty, 1) IN
  IF info.kind = "list"
  THEN LET total_batch_qty == SumSeq(BatchQtys(info.batches)) IN
       IF total_batch_qty <= 0 THEN <<>>
       ELSE BatchLines(item_code, rounded_qty, info.batches, total_batch_qty,
                       target_wh, 1, 0)
  ELSE <<[item_code |-> item_code, qty |-> rounded_qty,
          t_warehouse |-> target_wh, batch_no |-> info.batch_no]>>

\* the rows of the Stock Entry built for one work order (items in ItemOrder)
RECURSIVE EntryLines(_, _, _, _)
EntryLines(items, alloc, target_wh, n) ==
  IF n > Len(ItemOrder) THEN <<>>
  ELSE LET item == ItemOrder[n] IN
       (IF item \in DOMAIN alloc
        THEN ItemLines(item, alloc[item], batch_info_map(items, item), target_wh)
        ELSE <<>>)
       \o EntryLines(items, alloc, target_wh, n + 1)

\* the Stock Entry of create_consolidated_transfers for one work order
StagingEntry(c, w, target_wh, lines) ==
  [purpose |-> "Material Transfer", work_order |-> NULL,
   to_warehouse |-> target_wh, remarks_wo |-> w, request |-> c,
   qty_den |-> 1, items |-> lines]

\* an exception leaving the request with the entries submitted so far
\* committed
Throw_KeepsSubmitted(c) ==
  /\ cct' = [cct EXCEPT ![c].pc = "failed", ![c].tx = <<>>, ![c].created = <<>>]
  /\ ledger' = ledger \o cct[c].tx

\* frappe.throw / an exception leaving the request: its uncommitted writes are
\* rolled back and nothing of the request is committed
Throw(c) ==
  /\ cct' = [cct EXCEPT ![c].pc = "failed", ![c].tx = <<>>, ![c].created = <<>>]
  /\ ledger' = ledger

\* input validation, FIFO order and the remaining snapshot (lines 497-561)
Begin(c) ==
  /\ cct[c].pc = "idle"
  /\ LET r == cct[c]
         batch_missing ==
           \E k \in DOMAIN r.items :
              /\ itemMeta[r.items[k].item_code].has_batch_no
              /\ Len(r.items[k].batches) = 0
              /\ r.items[k].batch_no = NULL
     IN IF r.selected_wos = {} \/ r.items = <<>> \/ batch_missing
        THEN Throw(c)
        ELSE \E wo_order \in _order_wos_fifo(r.selected_wos) :
               LET remaining == [w \in r.selected_wos |-> _remaining_map_for_wo(ledger, w)]
               IN /\ cct' = [cct EXCEPT ![c] =
                       [r EXCEPT !.pc = "alloc",
                                 !.wo_order = wo_order,
                                 !.snapshot = remaining,
                                 !.remaining = remaining,
                                 !.seen = Len(ledger),
                                 !.allocations = [w \in r.selected_wos |-> EmptyMap],
                                 !.row = 1,
                                 !.widx = 1,
                                 !.qty_left = r.items[1].qty]]
                  /\ ledger' = ledger
  /\ UNCHANGED <<dbVars, cp, queue, scanVars, batchVars, cardVars>>

\* a take that ignores the order's remaining requirement
Take_NoCap(rem, qty_left) == qty_left

\* a take that ignores what is left of the cart row
Take_WholeNeed(rem, qty_left) == rem

\* take = min(rem, qty_left)
Take(rem, qty_left) == Min(rem, qty_left)

\* total remaining requirement for an item over the selected orders
TotalRemaining(remaining, item) ==
  SumOver(DOMAIN remaining, [w \in DOMAIN remaining |-> Get(remaining[w], item, 0)])

\* leave the current cart row: log it and load the next row, or end the pass
NextRow(r, remaining, allocations, qty_left) ==
  LET row == r.items[r.row]
      taken == row.qty - qty_left
      entry == [item_code |-> row.item_code, qty |-> row.qty, taken |-> taken,
                rem_before |-> TotalRemaining(remaining, row.item_code) + taken]
      more == r.row < Len(r.items)
  IN [r EXCEPT !.remaining = remaining,
               !.allocations = allocations,
               !.rowlog = Append(r.rowlog, entry),
               !.row = r.row + 1,
               !.widx = 1,
               !.qty_left = IF more THEN r.items[r.row + 1].qty ELSE 0,
               !.pc = IF more THEN "alloc" ELSE "create",
               !.create_idx = 1]

\* one iteration of the inner loop of the allocation pass (lines 562-579)
AllocStep(c) ==
  /\ cct[c].pc = "alloc"
  /\ LET r == cct[c]
         item == r.items[r.row].item_code
         wo == r.wo_order[r.widx]
         rem == Get(r.remaining[wo], item, 0)
         take == Take(rem, r.qty_left)
         takes == rem > 0 /\ take > 0
         allocations == IF takes
                        THEN [r.allocations EXCEPT ![wo] =
                                Put(@, item, Get(@, item, 0) + take)]
                        ELSE r.allocations
         remaining == IF takes
                      THEN [r.remaining EXCEPT ![wo] = Put(@, item, rem - take)]
                      ELSE r.remaining
         qty_left == IF takes THEN r.qty_left - take ELSE r.qty_left
         break == rem > 0 /\ qty_left <= StopTol
     IN IF r.qty_left <= 0
        THEN cct' = [cct EXCEPT ![c] = NextRow(r, r.remaining, r.allocations, r.qty_left)]
        ELSE IF break \/ r.widx = Len(r.wo_order)
        THEN cct' = [cct EXCEPT ![c] = NextRow(r, remaining, allocations, qty_left)]
        ELSE cct' = [cct EXCEPT ![c] =
                       [r EXCEPT !.remaining = remaining,
                                 !.allocations = allocations,
                                 !.qty_left = qty_left,
                                 !.widx = r.widx + 1]]
  /\ UNCHANGED <<dbVars, ledger, cp, queue, scanVars, batchVars, cardVars>>

\* a creation loop that writes an entry for an order without allocation too
CreateStep_KeepsEmpty(c) ==
  /\ cct[c].pc = "create"
  /\ cct[c].create_idx <= Len(cct[c].wo_order)
  /\ LET r == cct[c]
         wo == r.wo_order[r.create_idx]
         alloc == r.allocations[wo]
         target_wh == TargetWh(workOrder[wo])
         lines == EntryLines(r.items, alloc, target_wh, 1)
     IN IF target_wh = "" \/ (DOMAIN alloc # {} /\ lines = <<>>)
        THEN Throw(c)
        ELSE /\ cct' = [cct EXCEPT ![c] =
                       [r EXCEPT !.tx = Append(r.tx, StagingEntry(c, wo, target_wh, lines)),
                                 !.created = Append(r.created, wo),
                                 !.create_idx = r.create_idx + 1]]
             /\ ledger' = ledger
  /\ UNCHANGED <<dbVars, cp, queue, scanVars, batchVars, cardVars>>

\* one iteration of the creation loop (lines 582-688): skip an order without
\* allocation, throw without a target warehouse, else insert and submit
CreateStep(c) ==
  /\ cct[c].pc = "create"
  /\ cct[c].create_idx <= Len(cct[c].wo_order)
  /\ LET r == cct[c]
         wo == r.wo_order[r.create_idx]
         alloc == r.allocations[wo]
         target_wh == TargetWh(workOrder[wo])
         lines == EntryLines(r.items, alloc, target_wh, 1)
     IN IF DOMAIN alloc = {}
        THEN cct' = [cct EXCEPT ![c].create_idx = r.create_idx + 1] /\ ledger' = ledger
        ELSE IF target_wh = "" \/ lines = <<>>
        THEN Throw(c)
        ELSE /\ cct' = [cct EXCEPT ![c] =
                       [r EXCEPT !.tx = Append(r.tx, StagingEntry(c, wo, target_wh, lines)),
                                 !.created = Append(r.created, wo),
                                 !.create_idx = r.create_idx + 1]]
             /\ ledger' = ledger
  /\ UNCHANGED <<dbVars, cp, queue, scanVars, batchVars, cardVars>>

\* se.insert() / se.submit() raising for an order that has an allocation
CreateFail(c) ==
  /\ cct[c].pc = "create"
  /\ cct[c].create_idx <= Len(cct[c].wo_order)
  /\ DOMAIN cct[c].allocations[cct[c].wo_order[cct[c].create_idx]] # {}
  /\ TargetWh(workOrder[cct[c].wo_order[cct[c].create_idx]]) # ""
  /\ Throw(c)
  /\ UNCHANGED <<dbVars, cp, queue, scanVars, batchVars, cardVars>>

\* a return that first compares the snapshot with the ledger and throws when
\* the remaining requirement of a selected order has changed since it was read
Return_Revalidated(c) ==
  /\ cct[c].pc = "create"
  /\ cct[c].create_idx > Len(cct[c].wo_order)
  /\ IF \A w \in cct[c].selected_wos :
          _remaining_map_for_wo(ledger, w) = cct[c].snapshot[w]
     THEN /\ ledger' = ledger \o cct[c].tx
          /\ cct' = [cct EXCEPT ![c].pc = "done", ![c].tx = <<>>]
     ELSE Throw(c)
  /\ UNCHANGED <<dbVars, cp, queue, scanVars, batchVars, cardVars>>

\* return {"transfers": created}: the request ends and its entries are committed
Return(c) ==
  /\ cct[c].pc = "create"
  /\ cct[c].create_idx > Len(cct[c].wo_order)
  /\ ledger' = ledger \o cct[c].tx
  /\ cct' = [cct EXCEPT ![c].pc = "done", ![c].tx = <<>>]
  /\ UNCHANGED <<dbVars, cp, queue, scanVars, batchVars, cardVars>>

----------------------------------------------------------------------------
(* mes_ops.py: line warehouses and the transfer from staging to WIP *)

\* Stock Settings.default_warehouse of the modelled site
default_warehouse == "WIP"

\* the largest number of submitted Stock Entries
MaxLedger == 4

\* custom_factory_line of the order, else the default line of its BOM (no
\* Work Order Operation or Job Card rows are modelled)
_line_for_work_order(w) ==
  IF workOrder[w].custom_factory_line # NULL
  THEN workOrder[w].custom_factory_line
  ELSE IF workOrder[w].bom_no # NULL THEN bom.custom_default_factory_line
  ELSE NULL

\* the Line Warehouse Map row of the line, all NULL when there is none
_warehouses_for_line(line) ==
  IF line # NULL /\ line \in DOMAIN lineWarehouseMap
  THEN lineWarehouseMap[line]
  ELSE [staging_warehouse |-> NULL, wip_warehouse |-> NULL,
        target_warehouse |-> NULL, scrap_warehouse |-> NULL]

_default_line_staging(w) ==
  coalesce(_warehouses_for_line(_line_for_work_order(w)).staging_warehouse,
           default_warehouse)

_default_line_wip(w) ==
  coalesce(_warehouses_for_line(_line_for_work_order(w)).wip_warehouse,
           default_warehouse)

_default_line_target(w) ==
  _warehouses_for_line(_line_for_work_order(w)).target_warehouse

_default_line_scrap(w) ==
  _warehouses_for_line(_line_for_work_order(w)).scrap_warehouse

\* the rows of submitted 'Material Transfer' entries into staging_wh whose
\* remarks name the work order, in posting order (from entry e on)
RECURSIVE items_in_staging(_, _, _, _)
items_in_staging(led, w, staging_wh, e) ==
  IF e > Len(led) THEN <<>>
  ELSE (IF led[e].purpose = "Material Transfer" /\ led[e].remarks_wo = w
        THEN SelectSeq(led[e].items,
                       LAMBDA l : l.t_warehouse = staging_wh /\ l.qty > 0)
        ELSE <<>>)
       \o items_in_staging(led, w, staging_wh, e + 1)

\* transfer_staged_to_wip(work_order): one 'Material Transfer for Manufacture'
\* that carries every staged row of the order into the WIP warehouse; a call
\* that finds no staged row writes nothing.  Both warehouses fall back to
\* default_warehouse, so the two "not configured" errors do not arise.
transfer_staged_to_wip(w) ==
  LET staging_wh == _default_line_staging(w)
      wip_wh == _default_line_wip(w)
      staged == items_in_staging(ledger, w, staging_wh, 1)
      se == [purpose |-> "Material Transfer for Manufacture", work_order |-> w,
             to_warehouse |-> wip_wh, remarks_wo |-> NULL,
             request |-> "operator", qty_den |-> 1,
             items |-> [k \in DOMAIN staged |->
                          [staged[k] EXCEPT !.t_warehouse = wip_wh]]]
  IN /\ Len(ledger) < MaxLedger
     /\ staged # <<>>
     /\ ledger' = Append(ledger, se)
     /\ UNCHANGED <<dbVars, cct, cp, queue, scanVars, batchVars, cardVars>>

----------------------------------------------------------------------------
(* The operations that report or check the stage status.  queue holds the  *)
(* response of the last of them.  A call of _stage_status may raise (a     *)
(* failing query); the calls that raise are an input of the operation.     *)

\* frappe.db.exists("Stock Entry", {work_order, purpose in (...), docstatus 1})
ExistsTransfer(led, w) ==
  \E e \in DOMAIN led :
     led[e].work_order = w /\ led[e].purpose \in TransferPurposes

\* the except branch of get_queue
StageStatusFallback(led, w) ==
  IF ExistsTransfer(led, w) THEN "Partial" ELSE "Not Staged"

\* the response of an operation
Response(op, w, action, failed_for, outcome, stage_status) ==
  [op |-> op, wo |-> w, action |-> action, failed_for |-> failed_for,
   seen |-> Len(ledger), outcome |-> outcome, stage_status |-> stage_status]

\* get_queue of the hub: the open work orders with their stage status, the
\* fallback replacing a computation that raised
get_queue ==
  LET rows == {w \in WOs : workOrder[w].status \in {"Not Started", "In Process"}}
  IN \E failed_for \in SUBSET rows :
       /\ queue' = Response("get_queue", NULL, NULL, failed_for, "ok",
                            [w \in rows |->
                               IF w \in failed_for
                               THEN StageStatusFallback(ledger, w)
                               ELSE _stage_status(ledger, w)])
       /\ UNCHANGED <<dbVars, ledger, cct, cp, scanVars, batchVars, cardVars>>

\* get_line_queue of the operator screen: _stage_status is called for every
\* row outside any try block, so a computation that raises ends the request
get_line_queue ==
  LET rows == {w \in WOs :
                 workOrder[w].status \in {"Not Started", "In Process", "Stopped"}}
  IN \E failed_for \in SUBSET rows :
       /\ queue' = IF failed_for # {}
                   THEN Response("get_line_queue", NULL, NULL, failed_for,
                                 "exception", EmptyMap)
                   ELSE Response("get_line_queue", NULL, NULL, failed_for, "ok",
                                 [w \in rows |-> _stage_status(ledger, w)])
       /\ UNCHANGED <<dbVars, ledger, cct, cp, scanVars, batchVars, cardVars>>

\* the actions set_work_order_state knows
Actions == {"start", "pause", "stop", "resume", "reopen"}

\* the time of the request (frappe.utils.now_datetime())
now == 1

\* a set_work_order_state that does not look at the stage status
set_work_order_state_NoGate(w, action) ==
  \E failed \in BOOLEAN, transferred \in BOOLEAN :
    LET stage_status == _stage_status(ledger, w)
        staging_wh == _default_line_staging(w)
        wip_wh == _default_line_wip(w)
        staged == items_in_staging(ledger, w, staging_wh, 1)
        se == [purpose |-> "Material Transfer for Manufacture", work_order |-> w,
               to_warehouse |-> wip_wh, remarks_wo |-> NULL,
               request |-> "operator", qty_den |-> 1,
               items |-> [k \in DOMAIN staged |->
                            [staged[k] EXCEPT !.t_warehouse = wip_wh]]]
        status == IF action \in {"pause", "stop"} THEN "Stopped" ELSE "In Process"
        wo == workOrder[w]
        updates ==
          [wo EXCEPT !.status = status,
                     !.actual_start_date =
                        IF action = "start" /\ wo.actual_start_date = NoDate
                        THEN now ELSE wo.actual_start_date,
                     !.actual_end_date =
                        IF action = "stop" /\ wo.actual_end_date = NoDate
                        THEN now ELSE wo.actual_end_date]
    IN IF failed
       THEN /\ queue' = Response("set_work_order_state", w, action, {w},
                                 "exception", EmptyMap)
            /\ UNCHANGED <<dbVars, ledger, cct, cp, scanVars, batchVars, cardVars>>
       ELSE IF action \notin Actions
       THEN /\ queue' = Response("set_work_order_state", w, action, {},
                                 "unknown_action", [v \in {w} |-> stage_status])
            /\ UNCHANGED <<dbVars, ledger, cct, cp, scanVars, batchVars, cardVars>>
       ELSE /\ queue' = Response("set_work_order_state", w, action, {},
                                 "ok", [v \in {w} |-> stage_status])
            /\ workOrder' = [workOrder EXCEPT ![w] = updates]
            /\ IF action = "start" /\ staged # <<>> /\ transferred
               THEN Len(ledger) < MaxLedger /\ ledger' = Append(ledger, se)
               ELSE ledger' = ledger
            /\ UNCHANGED <<cfgVars, cct, cp, scanVars, batchVars, cardVars>>

\* set_work_order_state(work_order, action): the stage status gate, the
\* status update and, on start, the transfer from staging to WIP, whose
\* failure is logged and does not stop the action
set_work_order_state(w, action) ==
  \E failed \in BOOLEAN, transferred \in BOOLEAN :
    LET stage_status == _stage_status(ledger, w)
        staging_wh == _default_line_staging(w)
        wip_wh == _default_line_wip(w)
        staged == items_in_staging(ledger, w, staging_wh, 1)
        se == [purpose |-> "Material Transfer for Manufacture", work_order |-> w,
               to_warehouse |-> wip_wh, remarks_wo |-> NULL,
               request |-> "operator", qty_den |-> 1,
               items |-> [k \in DOMAIN staged |->
                            [staged[k] EXCEPT !.t_warehouse = wip_wh]]]
        status == IF action \in {"pause", "stop"} THEN "Stopped" ELSE "In Process"
        wo == workOrder[w]
        updates ==
          [wo EXCEPT !.status = status,
                     !.actual_start_date =
                        IF action = "start" /\ wo.actual_start_date = NoDate
                        THEN now ELSE wo.actual_start_date,
                     !.actual_end_date =
                        IF action = "stop" /\ wo.actual_end_date = NoDate
                        THEN now ELSE wo.actual_end_date]
    IN IF failed
       THEN /\ queue' = Response("set_work_order_state", w, action, {w},
                                 "exception", EmptyMap)
            /\ UNCHANGED <<dbVars, ledger, cct, cp, scanVars, batchVars, cardVars>>
       ELSE IF stage_status # "Staged" /\ action \in Actions
       THEN /\ queue' = Response("set_work_order_state", w, action, {},
                                 "not_staged", [v \in {w} |-> stage_status])
            /\ UNCHANGED <<dbVars, ledger, cct, cp, scanVars, batchVars, cardVars>>
       ELSE IF action \notin Actions
       THEN /\ queue' = Response("set_work_order_state", w, action, {},
                                 "unknown_action", [v \in {w} |-> stage_status])
            /\ UNCHANGED <<dbVars, ledger, cct, cp, scanVars, batchVars, cardVars>>
       ELSE /\ queue' = Response("set_work_order_state", w, action, {},
                                 "ok", [v \in {w} |-> stage_status])
            /\ workOrder' = [workOrder EXCEPT ![w] = updates]
            /\ IF action = "start" /\ staged # <<>> /\ transferred
               THEN Len(ledger) < MaxLedger /\ ledger' = Append(ledger, se)
               ELSE ledger' = ledger
            /\ UNCHANGED <<cfgVars, cct, cp, scanVars, batchVars, cardVars>>

----------------------------------------------------------------------------
(* mes_ops.py: close_production, one request (cp)                          *)
(* The request carries no batch_no and no packaging usage.  The quantities *)
(* of a Manufacture entry are the numerators of fractions whose            *)
(* denominator is the entry's qty_den (the total planned quantity).        *)

\* the work orders the filters of close_production / the validation select
OnLines(w, line_list) ==
  line_list # {} =>
    /\ workOrder[w].custom_factory_line \in line_list
    /\ _line_for_work_order(w) \in line_list

\* ended, not completed work orders of the lines
EndedWos(line_list) ==
  {w \in WOs : /\ workOrder[w].custom_production_ended = 1
               /\ workOrder[w].status # "Completed"
               /\ OnLines(w, line_list)}

\* ... order_by="creation asc" (equal creation times in any order)
ended_wos(line_list) ==
  {s \in Perms(EndedWos(line_list)) :
      \A i, j \in DOMAIN s :
         i < j => workOrder[s[i]].creation <= workOrder[s[j]].creation}

\* TRUE when the validation of the configured mode passes
_validate_close_production(line_list, ended) ==
  LET mode == factorySettings.close_production_validation_mode IN
  IF mode = "All WOs on Line Must Be Ended"
  THEN \A w \in WOs :
         workOrder[w].status # "Completed" /\ OnLines(w, line_list)
           => workOrder[w].custom_production_ended = 1
  ELSE IF mode = "Minimum Number of WOs"
  THEN Len(ended) >= factorySettings.close_production_min_wo_count
  ELSE TRUE

total_wo_qty(ended) == SumSeq([i \in DOMAIN ended |-> workOrder[ended[i]].qty])

\* a split that gives every order the same share
_calculate_proportional_split_Equal(ended, total_good, total_reject) ==
  [w \in {ended[i] : i \in DOMAIN ended} |->
     [good |-> total_good, reject |-> total_reject]]

\* the shares of the orders, as numerators over total_wo_qty
_calculate_proportional_split(ended, total_good, total_reject) ==
  [w \in {ended[i] : i \in DOMAIN ended} |->
     [good |-> total_good * workOrder[w].qty,
      reject |-> total_reject * workOrder[w].qty]]

\* quantities consumed for the order through 'Material Consumption for
\* Manufacture' entries
_get_consumed_materials_from_load(led, w) ==
  SumLinesBy(led, {r \in AllLines(led) :
                     /\ led[r[1]].work_order = w
                     /\ led[r[1]].purpose = "Material Consumption for Manufacture"})

Abs(x) == IF x < 0 THEN -x ELSE x

\* the consumption rows of the Manufacture entry: BOM quantity for the good
\* share less what was consumed already, when above QTY_EPSILON (0.0001)
RECURSIVE ConsumptionLines(_, _, _, _)
ConsumptionLines(w, good, den, n) ==
  IF n > Len(ItemOrder) THEN <<>>
  ELSE LET item == ItemOrder[n]
           already == Get(_get_consumed_materials_from_load(ledger, w), item, 0)
           remaining_qty == bom.explosion[item] * good - already * den
       IN (IF /\ workOrder[w].bom_no # NULL
              /\ bom.explosion[item] > 0
              /\ 10 * Abs(remaining_qty) > Quantum * den
              /\ remaining_qty > 0
           THEN <<[item_code |-> item, qty |-> remaining_qty,
                   t_warehouse |-> NULL, batch_no |-> NULL]>>
           ELSE <<>>)
          \o ConsumptionLines(w, good, den, n + 1)

\* the Manufacture Stock Entry of one work order
ManufactureEntry(w, split, den) ==
  LET fg_wh == coalesce(_default_line_target(w), default_warehouse)
      scrap_wh == _default_line_scrap(w)
  IN [purpose |-> "Manufacture", work_order |-> w, to_warehouse |-> fg_wh,
      remarks_wo |-> NULL, request |-> "close", qty_den |-> den,
      items |->
        <<[item_code |-> "FG", qty |-> split.good, t_warehouse |-> fg_wh,
           batch_no |-> NULL]>>
        \o ConsumptionLines(w, split.good, den, 1)
        \o (IF split.reject > 0 /\ scrap_wh # NULL
            THEN <<[item_code |-> "FG", qty |-> split.reject,
                    t_warehouse |-> scrap_wh, batch_no |-> NULL]>>
            ELSE <<>>)]

\* frappe.throw leaving close_production: nothing of the request is committed
CloseThrow ==
  /\ cp' = [cp EXCEPT !.pc = "failed", !.tx = <<>>, !.completed = <<>>]
  /\ ledger' = ledger
  /\ workOrder' = workOrder

\* input checks that leave out the check of the total planned quantity
CloseBegin_NoTotalCheck ==
  /\ cp.pc = "idle"
  /\ IF \/ cp.good_qty <= 0
        \/ cp.reject_qty < 0
        \/ EndedWos(cp.lines) = {}
     THEN CloseThrow
     ELSE \E ended \in ended_wos(cp.lines) :
            IF ~_validate_close_production(cp.lines, ended)
            THEN CloseThrow
            ELSE /\ cp' = [cp EXCEPT !.pc = "run", !.ended_wos = ended, !.idx = 1]
                 /\ ledger' = ledger
                 /\ workOrder' = workOrder
  /\ UNCHANGED <<cfgVars, cct, queue, scanVars, batchVars, cardVars>>

\* input checks, the ended work orders, the validation and the split
\* (lines 2094-2154)
CloseBegin ==
  /\ cp.pc = "idle"
  /\ IF \/ cp.good_qty <= 0
        \/ cp.reject_qty < 0
        \/ EndedWos(cp.lines) = {}
     THEN CloseThrow
     ELSE \E ended \in ended_wos(cp.lines) :
            IF \/ ~_validate_close_production(cp.lines, ended)
               \/ total_wo_qty(ended) <= 0
            THEN CloseThrow
            ELSE /\ cp' = [cp EXCEPT !.pc = "run", !.ended_wos = ended, !.idx = 1]
                 /\ ledger' = ledger
                 /\ workOrder' = workOrder
  /\ UNCHANGED <<cfgVars, cct, queue, scanVars, batchVars, cardVars>>

\* one iteration of the loop over the ended work orders (lines 2156-2292):
\* the Manufacture entry is inserted and submitted and the order marked
\* Completed, inside the transaction of the request
CloseStep ==
  /\ cp.pc = "run"
  /\ cp.idx <= Len(cp.ended_wos)
  /\ LET w == cp.ended_wos[cp.idx]
         den == total_wo_qty(cp.ended_wos)
         split == _calculate_proportional_split(cp.ended_wos, cp.good_qty,
                                                cp.reject_qty)[w]
     IN cp' = [cp EXCEPT !.tx = Append(@, ManufactureEntry(w, split, den)),
                         !.completed = Append(@, w),
                         !.idx = @ + 1]
  /\ UNCHANGED <<dbVars, ledger, cct, queue, scanVars, batchVars, cardVars>>

\* an exception inside the try block of an iteration (lines 2294-2296)
CloseFail ==
  /\ cp.pc = "run"
  /\ cp.idx <= Len(cp.ended_wos)
  /\ CloseThrow
  /\ UNCHANGED <<cfgVars, cct, queue, scanVars, batchVars, cardVars>>

\* the sum of two fractions <<numerator, denominator>>
AddFrac(a, b) == <<a[1] * b[2] + b[1] * a[2], a[2] * b[2]>>

\* the Work Order row after its closure
Closed(w, den) ==
  LET reject == cp.reject_qty * workOrder[w].qty IN
  [workOrder[w] EXCEPT
     !.status = "Completed",
     !.actual_end_date = now,
     !.custom_production_ended = 0,
     !.custom_rejects_qty = IF reject > 0 THEN AddFrac(@, <<reject, den>>) ELSE @]

\* the request returns and its writes are committed (lines 2299-2303)
CloseReturn ==
  /\ cp.pc = "run"
  /\ cp.idx > Len(cp.ended_wos)
  /\ ledger' = ledger \o cp.tx
  /\ workOrder' =
       [w \in WOs |->
          IF \E i \in DOMAIN cp.completed : cp.completed[i] = w
          THEN Closed(w, total_wo_qty(cp.ended_wos))
          ELSE workOrder[w]]
  /\ cp' = [cp EXCEPT !.pc = "done", !.tx = <<>>]
  /\ UNCHANGED <<cfgVars, cct, queue, scanVars, batchVars, cardVars>>

close_production ==
  \/ CloseBegin
  \/ CloseStep
  \/ CloseFail
  \/ CloseReturn

----------------------------------------------------------------------------
(* Requests and initial states *)

\* a request that has been received and not yet run
IdleCall(sel, items) ==
  [pc |-> "idle", selected_wos |-> sel, items |-> items, wo_order |-> <<>>,
   snapshot |-> EmptyMap, remaining |-> EmptyMap, seen |-> 0,
   allocations |-> EmptyMap,
   row |-> 0, widx |-> 0, qty_left |-> 0, rowlog |-> <<>>, create_idx |-> 0,
   tx |-> <<>>, created |-> <<>>]

\* the scan_material requests
Scans == {"s1", "s2"}

\* no scan request on this slot
OffScan == [pc |-> "off", work_order |-> NULL, code |-> <<>>, msg |-> NULL, tx |-> <<>>]

\* the claim_job_card requests
Claims == {"k1", "k2"}

\* a claim_job_card request that is not part of the run
OffClaim ==
  [pc |-> "off", employee |-> NULL, stale |-> FALSE, time_logs |-> <<>>,
   status |-> NULL, msg |-> NULL]

\* no Job Card
NoCard == [status |-> NULL, time_logs |-> <<>>]

\* no request on this slot
OffCall == [IdleCall({}, <<>>) EXCEPT !.pc = "off"]

\* no closure request
OffClose ==
  [pc |-> "off", good_qty |-> 0, reject_qty |-> 0, lines |-> {},
   ended_wos |-> <<>>, idx |-> 0, tx |-> <<>>, completed |-> <<>>]

\* a closure request that has been received and not yet run
IdleClose(good_qty, reject_qty, lines) ==
  [OffClose EXCEPT !.pc = "idle", !.good_qty = good_qty,
                   !.reject_qty = reject_qty, !.lines = lines]

\* Factory Settings with the default closure validation
NoValidation ==
  [close_production_validation_mode |-> "No Validation",
   close_production_min_wo_count |-> 1]

\* cart rows without batch information
PlainRows ==
  [item_code : Items, qty : 0..MaxCartQty, batches : {<<>>}, batch_no : {NULL}]

\* planned start dates may be unset; WO-2 is created at time 1, WO-1 at or
\* after it
WorkOrderKeys ==
  {k \in [WOs -> [planned_start_date : PlannedDates, creation : CreationTimes]] :
      k["WO-2"].creation = 1}

WorkOrderRow(k, q, wip, line) ==
  [planned_start_date |-> k.planned_start_date, creation |-> k.creation,
   qty |-> q, wip_warehouse |-> wip, custom_factory_line |-> line,
   bom_no |-> "BOM-1", status |-> "Not Started", custom_production_ended |-> 0,
   custom_rejects_qty |-> <<0, 1>>,
   actual_start_date |-> NoDate, actual_end_date |-> NoDate]

\* a BOM whose rows are all raw materials: explosion and item rows coincide
FlatBom(x, y) ==
  [explosion |-> [i \in Items |-> IF i = "X" THEN x ELSE y],
   item |-> [i \in Items |-> [qty |-> IF i = "X" THEN x ELSE y, has_bom |-> FALSE]],
   custom_default_factory_line |-> NULL]

InitAlloc ==
  /\ \E k \in WorkOrderKeys, q \in [WOs -> WoQtys] :
       workOrder = [w \in WOs |-> WorkOrderRow(k[w], q[w], "WIP", NULL)]
  /\ \E x \in 1..MaxPerUnit, y \in 0..1 : bom = FlatBom(x, y)
  /\ lineWarehouseMap = EmptyMap
  /\ factorySettings = NoValidation
  /\ itemMeta = [i \in Items |-> [has_batch_no |-> FALSE]]
  /\ ledger = <<>>
  /\ \E sel \in SUBSET WOs, items \in SeqsOfLen(PlainRows, CartLengths) :
       cct = [c \in Calls |-> IF c = "c1" THEN IdleCall(sel, items) ELSE OffCall]
  /\ cp = OffClose
  /\ queue = EmptyMap
  /\ batch = {}
  /\ batch_code = NULL
  /\ jobCard = NoCard
  /\ jcr = [r \in Claims |-> OffClaim]
  /\ cache = {}
  /\ scan = [s \in Scans |-> OffScan]

FanOut(c) ==
  \/ Begin(c)
  \/ AllocStep(c)
  \/ CreateStep(c)
  \/ CreateFail(c)
  \/ Return(c)

NextAlloc == \E c \in Calls : FanOut(c)

SpecAlloc == InitAlloc /\ [][NextAlloc]_vars

----------------------------------------------------------------------------
(* Claims on the allocation pass *)

\* the requests whose allocation pass has started
Allocating == {c \in Calls : cct[c].pc \in {"alloc", "create", "done"}}

Alloc(c, w, item) == Get(cct[c].allocations[w], item, 0)

Snapshot(c, w, item) == Get(cct[c].snapshot[w], item, 0)

\* C1: at every point of the allocation pass and after it, the quantity
\* allocated to a selected work order for an item (over all cart rows carrying
\* the item) is at most the order's remaining requirement for the item as
\* computed once before the pass
C1_NoOverAllocation ==
  \A c \in Allocating : \A w \in cct[c].selected_wos : \A item \in Items :
    Alloc(c, w, item) <= Snapshot(c, w, item)

\* two cart rows of one item have both given to one order, which is now
\* allocated its whole snapshot requirement
C1_Witness ==
  \E c \in Calls : \E w \in cct[c].selected_wos : \E item \in Items :
    /\ cct[c].pc = "done"
    /\ Len(cct[c].rowlog) = 2
    /\ \A n \in 1..2 : cct[c].rowlog[n].item_code = item /\ cct[c].rowlog[n].taken > 0
    /\ cct[c].wo_order[1] = w
    /\ Alloc(c, w, item) = Snapshot(c, w, item)
    /\ cct[c].rowlog[1].taken < Snapshot(c, w, item)

\* C2: the quantities allocated from one cart row over all selected orders sum
\* to at most the row's quantity, and to the row's quantity (up to the stop
\* tolerance) whenever the orders' total remaining requirement for the item,
\* when the row is reached, is at least the row's quantity
C2_RowConservation ==
  \A c \in Calls : \A n \in DOMAIN cct[c].rowlog :
    LET e == cct[c].rowlog[n] IN
      /\ e.taken <= e.qty
      /\ e.rem_before >= e.qty => e.qty - e.taken <= StopTol

\* a row allocated in full over two orders, and a row cut short by the
\* orders' total requirement
C2_Witness ==
  \E c \in Calls :
    /\ cct[c].pc = "done"
    /\ Len(cct[c].rowlog) = 2
    /\ LET e == cct[c].rowlog[1]
           f == cct[c].rowlog[2]
       IN /\ e.rem_before >= e.qty /\ e.taken = e.qty /\ e.qty > 0
          /\ \A w \in WOs : w \in cct[c].selected_wos /\ Alloc(c, w, e.item_code) > 0
          /\ f.rem_before < f.qty /\ f.taken = f.rem_before /\ f.taken > 0

\* the ordering key of a (planned start, then creation) is strictly before b's
Earlier(a, b) ==
  \/ workOrder[a].planned_start_date < workOrder[b].planned_start_date
  \/ /\ workOrder[a].planned_start_date = workOrder[b].planned_start_date
     /\ workOrder[a].creation < workOrder[b].creation

----------------------------------------------------------------------------
(* Carts with batch information *)

\* numbers of batches of a cart row
BatchCounts == {1, 2, 3}

\* batch breakdowns: batch i of a row is BatchNos[i]; a quantity may be zero
BatchLists ==
  UNION {{[i \in 1..n |-> [batch_no |-> BatchNos[i], qty |-> q[i]]] :
            q \in [1..n -> 0..MaxBatchQty]} : n \in BatchCounts}

\* cart rows of item X: with a batches list, with a single batch, or with
\* neither
BatchRows ==
  [item_code : {"X"}, qty : 1..MaxPoolQty, batches : BatchLists, batch_no : {NULL}]
  \cup [item_code : {"X"}, qty : 1..MaxPoolQty, batches : {<<>>}, batch_no : {"B1", NULL}]

InitSplit ==
  /\ \E q \in [WOs -> WoQtys] :
       workOrder = [w \in WOs |->
          WorkOrderRow([planned_start_date |-> 1,
                        creation |-> IF w = "WO-1" THEN 1 ELSE 2], q[w], "WIP", NULL)]
  /\ \E x \in 1..MaxPerUnit : bom = FlatBom(x * Quantum, 0)
  /\ lineWarehouseMap = EmptyMap
  /\ factorySettings = NoValidation
  /\ itemMeta = [i \in Items |-> [has_batch_no |-> (i = "X")]]
  /\ ledger = <<>>
  /\ \E row \in BatchRows :
       cct = [c \in Calls |-> IF c = "c1" THEN IdleCall(WOs, <<row>>) ELSE OffCall]
  /\ cp = OffClose
  /\ queue = EmptyMap
  /\ batch = {}
  /\ batch_code = NULL
  /\ jobCard = NoCard
  /\ jcr = [r \in Claims |-> OffClaim]
  /\ cache = {}
  /\ scan = [s \in Scans |-> OffScan]

SpecSplit == InitSplit /\ [][NextAlloc]_vars

----------------------------------------------------------------------------
(* Claims on the batch split *)

\* the committed Stock Entries of a request
EntriesOf(c) == {e \in DOMAIN ledger : ledger[e].request = c}

\* total quantity of the rows of a Stock Entry for an item
EntryItemQty(entry, item) ==
  SumOver({l \in DOMAIN entry.items : entry.items[l].item_code = item},
          [l \in DOMAIN entry.items |-> entry.items[l].qty])

\* total quantity of the rows of a Stock Entry for an item and a batch
EntryBatchQty(entry, item, batch_no) ==
  SumOver({l \in DOMAIN entry.items :
             entry.items[l].item_code = item /\ entry.items[l].batch_no = batch_no},
          [l \in DOMAIN entry.items |-> entry.items[l].qty])

\* C4: on every committed transfer, for an item whose cart row carries a
\* batches list, the quantities of the batch rows of the item sum exactly to
\* the quantity allocated to the order for the item (stated for allocated
\* quantities that are whole multiples of the quantity step, which the
\* round-up of the order's quantity leaves as they are)
C4_BatchSplitTotals ==
  \A c \in Calls : \A e \in EntriesOf(c) : \A item \in Items :
    /\ cct[c].pc = "done"
    /\ batch_info_map(cct[c].items, item).kind = "list"
    /\ item \in DOMAIN cct[c].allocations[ledger[e].remarks_wo]
    /\ Alloc(c, ledger[e].remarks_wo, item) % Quantum = 0
    => EntryItemQty(ledger[e], item) = Alloc(c, ledger[e].remarks_wo, item)

\* C5: when a cart row with a batches list (positive batch quantities that sum
\* to the row's quantity) is allocated in full, the rows of each batch over
\* all committed transfers of the request sum to the batch's quantity in the
\* cart (stated for batch and allocated quantities that are whole multiples
\* of the quantity step)
C5_BatchTotalsPreserved ==
  \A c \in Calls : \A n \in DOMAIN cct[c].rowlog :
    LET row == cct[c].items[n]
    IN /\ cct[c].pc = "done"
       /\ Len(row.batches) > 0
       /\ \A i \in DOMAIN row.batches :
            row.batches[i].qty > 0 /\ row.batches[i].qty % Quantum = 0
       /\ \A w \in cct[c].selected_wos : Alloc(c, w, row.item_code) % Quantum = 0
       /\ SumSeq(BatchQtys(row.batches)) = row.qty
       /\ cct[c].rowlog[n].taken = row.qty
       => \A i \in DOMAIN row.batches :
            SumOver(EntriesOf(c),
                    [e \in EntriesOf(c) |->
                       EntryBatchQty(ledger[e], row.item_code, row.batches[i].batch_no)])
            = row.batches[i].qty

----------------------------------------------------------------------------
(* A fan-out request next to a closure request *)

\* good quantities of a closure request
GoodQtys == {0, 1, 2}

\* reject quantities of a closure request
RejectQtys == {-1, 0, 1}

\* the closure validations of Factory Settings
CloseSettings ==
  {NoValidation,
   [close_production_validation_mode |-> "All WOs on Line Must Be Ended",
    close_production_min_wo_count |-> 1],
   [close_production_validation_mode |-> "Minimum Number of WOs",
    close_production_min_wo_count |-> 2]}

\* planned quantities of the orders of a closure (the split guards against a
\* total that is not positive, so rows without quantity are included)
CloseQtys == [WOs -> {0, 1, 2}] \ {[w \in WOs |-> 2]}

\* WO-1 is the earlier order; WO-2 may lack a WIP warehouse; each order may
\* have been ended by end_work_order
InitClose ==
  /\ \E qs \in CloseQtys, wip \in {"WIP", NULL}, ended \in [WOs -> {0, 1}] :
       workOrder =
         [w \in WOs |->
            [WorkOrderRow([planned_start_date |-> 1,
                           creation |-> IF w = "WO-1" THEN 1 ELSE 2],
                          qs[w],
                          IF w = "WO-1" THEN "WIP" ELSE wip, "L1")
               EXCEPT !.custom_production_ended = ended[w]]]
  /\ bom = FlatBom(Quantum, 0)
  /\ lineWarehouseMap = EmptyMap
  /\ factorySettings \in CloseSettings
  /\ itemMeta = [i \in Items |-> [has_batch_no |-> FALSE]]
  /\ ledger = <<>>
  /\ \E sel \in {{"WO-1"}, WOs}, k \in 1..MaxCartQty :
       cct = [c \in Calls |->
                IF c = "c1"
                THEN IdleCall(sel, <<[item_code |-> "X", qty |-> k * Quantum,
                                      batches |-> <<>>, batch_no |-> NULL]>>)
                ELSE OffCall]
  /\ \E g \in GoodQtys, r \in RejectQtys, lines \in {{}, {"L1"}} :
       cp = IdleClose(g, r, lines)
  /\ queue = EmptyMap
  /\ batch = {}
  /\ batch_code = NULL
  /\ jobCard = NoCard
  /\ jcr = [r \in Claims |-> OffClaim]
  /\ cache = {}
  /\ scan = [s \in Scans |-> OffScan]

NextClose ==
  \/ \E c \in Calls : FanOut(c)
  \/ close_production

SpecClose == InitClose /\ [][NextClose]_vars

\* the committed entries written by a request
CommittedBy(request) == {e \in DOMAIN ledger : ledger[e].request = request}

----------------------------------------------------------------------------
(* Two fan-out requests and the operator's transfers from staging to WIP *)

\* quantities of a cart row, in whole quantity steps
FlowQtys == {Quantum, 2 * Quantum}

\* the Line Warehouse Map of a site whose line L1 has a staging and a WIP
\* warehouse
StagingMap ==
  [l \in {"L1"} |->
     [staging_warehouse |-> "STG", wip_warehouse |-> "WIP",
      target_warehouse |-> NULL, scrap_warehouse |-> NULL]]

\* BOMs with at least one row: X and Y raw materials (one of them may be
\* absent); X a raw material and Y a sub-assembly (a BOM Item row with a BOM
\* of its own and no explosion row); Y a sub-assembly made of X (the only BOM
\* Item row is Y, the only explosion row is X)
FlowBoms ==
  {FlatBom(xy[1] * Quantum, xy[2] * Quantum) :
      xy \in {p \in (0..MaxPerUnit) \X (0..1) : p[1] + p[2] > 0}}
  \cup {[FlatBom(Quantum, 0) EXCEPT !.item["Y"] = [qty |-> Quantum, has_bom |-> TRUE]]}
  \cup {[FlatBom(Quantum, 0) EXCEPT !.item["X"] = [qty |-> 0, has_bom |-> FALSE],
                                    !.item["Y"] = [qty |-> Quantum, has_bom |-> TRUE]]}

\* one-row carts
FlowCarts ==
  {<<[item_code |-> i, qty |-> q, batches |-> <<>>, batch_no |-> NULL]>> :
      i \in Items, q \in FlowQtys}

InitRace ==
  /\ \E wip \in {"WIP", NULL}, line \in {"L1", NULL} :
       /\ workOrder =
            [w \in WOs |->
               WorkOrderRow([planned_start_date |-> 1,
                             creation |-> IF w = "WO-1" THEN 1 ELSE 2],
                            1, IF w = "WO-1" THEN "WIP" ELSE wip, line)]
       /\ lineWarehouseMap = IF line = NULL THEN EmptyMap ELSE StagingMap
  /\ bom \in FlowBoms
  /\ factorySettings = NoValidation
  /\ itemMeta = [i \in Items |-> [has_batch_no |-> FALSE]]
  /\ ledger = <<>>
  /\ \E sel \in {{"WO-1"}, WOs}, cart1 \in FlowCarts, cart2 \in FlowCarts :
       cct = [c \in Calls |->
                IF c = "c1" THEN IdleCall(sel, cart1)
                ELSE IdleCall({"WO-1"}, cart2)]
  /\ cp = OffClose
  /\ queue = EmptyMap
  /\ batch = {}
  /\ batch_code = NULL
  /\ jobCard = NoCard
  /\ jcr = [r \in Claims |-> OffClaim]
  /\ cache = {}
  /\ scan = [s \in Scans |-> OffScan]

NextRace ==
  \/ \E c \in Calls : FanOut(c)
  \/ \E w \in WOs : transfer_staged_to_wip(w)

SpecRace == InitRace /\ [][NextRace]_vars

----------------------------------------------------------------------------
(* Claims on concurrent fan-outs, the stage status and the remaining map *)

\* the quantity of an item in the committed fan-out entries made for an order
FanOutQty(w, item) ==
  LET rows == {r \in AllLines(ledger) :
                 /\ ledger[r[1]].request \in Calls
                 /\ ledger[r[1]].remarks_wo = w
                 /\ ledger[r[1]].items[r[2]].item_code = item}
  IN SumOver(rows, [r \in rows |-> ledger[r[1]].items[r[2]].qty])

\* C6: the snapshot a request allocates from is the remaining requirement as
\* the ledger stood when the request read it, whatever has been committed
\* since; and a request that has built its entries commits them without
\* looking at the ledger again
C6_SnapshotReadOnce ==
  /\ [](\A c \in Allocating : \A w \in cct[c].selected_wos :
          cct[c].snapshot[w] =
            _remaining_map_for_wo(SubSeq(ledger, 1, cct[c].seen), w))
  /\ [][\A c \in Calls :
          /\ cct[c].pc = "create"
          /\ cct[c].create_idx > Len(cct[c].wo_order)
          /\ cct'[c] # cct[c]
          => cct'[c].pc = "done" /\ ledger' = ledger \o cct[c].tx]_vars

\* both requests read their snapshot of WO-1 while the ledger was empty, both
\* have committed, and their transfers of an item for WO-1 together exceed
\* the requirement that remained when they read it
C6_Witness ==
  /\ \A c \in Calls : cct[c].pc = "done" /\ cct[c].seen = 0
  /\ \E item \in Items :
       /\ Snapshot("c1", "WO-1", item) > 0
       /\ Snapshot("c2", "WO-1", item) = Snapshot("c1", "WO-1", item)
       /\ \A c \in Calls : \E e \in CommittedBy(c) : ledger[e].remarks_wo = "WO-1"
       /\ FanOutQty("WO-1", item) > Snapshot("c1", "WO-1", item)

\* the committed transfer entries that reference the order
TransfersOf(w) ==
  {e \in DOMAIN ledger :
     ledger[e].purpose \in TransferPurposes /\ ledger[e].work_order = w}

\* the quantity of an item that committed transfer entries referencing the
\* order have moved into warehouse wh
MovedInto(w, item, wh) ==
  LET rows == {r \in AllLines(ledger) :
                 /\ r[1] \in TransfersOf(w)
                 /\ ledger[r[1]].items[r[2]].item_code = item
                 /\ wh = IF ledger[r[1]].items[r[2]].t_warehouse # NULL
                         THEN ledger[r[1]].items[r[2]].t_warehouse
                         ELSE ledger[r[1]].to_warehouse}
  IN SumOver(rows, [r \in rows |-> ledger[r[1]].items[r[2]].qty])

\* some committed transfer entry referencing the order has a row into wh
HasTransferInto(w, wh) ==
  \E e \in TransfersOf(w) : \E l \in DOMAIN ledger[e].items :
     wh = IF ledger[e].items[l].t_warehouse # NULL
          THEN ledger[e].items[l].t_warehouse ELSE ledger[e].to_warehouse

\* the required leaf items of the order: BOM Item rows without a BOM of
\* their own
LeafItems == {i \in Items : bom.item[i].qty > 0 /\ ~bom.item[i].has_bom}

\* every required leaf item has transferred >= required at the precision
AllCovered(w) ==
  \A i \in LeafItems :
     flt(MovedInto(w, i, TargetWh(workOrder[w]))) >=
       flt(bom.item[i].qty * workOrder[w].qty)

Rank(status) ==
  CASE status = "Not Staged" -> 0
    [] status = "Partial" -> 1
    [] status = "Staged" -> 2

\* C9: with the BOM, the work orders and the warehouses fixed, no step that
\* adds committed entries moves the stage status of a work order backwards
\* along Not Staged -> Partial -> Staged
C9_StageStatusMonotone ==
  [][ledger' # ledger =>
       \A w \in WOs :
         Rank(_stage_status(ledger', w)) >= Rank(_stage_status(ledger, w))]_vars

\* WO-1 went from Not Staged (empty ledger) through Partial to Staged
C9_Witness ==
  /\ _stage_status(ledger, "WO-1") = "Staged"
  /\ \E k \in 1..Len(ledger) :
       _stage_status(SubSeq(ledger, 1, k), "WO-1") = "Partial"

\* C10: the remaining map of a work order holds, for each item, required
\* less moved into the target warehouse when that is positive, and has no
\* entry for the item otherwise; no entry is zero or negative
C10_RemainingMap ==
  \A w \in WOs :
    LET rem == _remaining_map_for_wo(ledger, w)
        target_wh == TargetWh(workOrder[w])
    IN \A i \in Items :
         LET required == bom.explosion[i] * workOrder[w].qty
             moved == IF target_wh # "" THEN MovedInto(w, i, target_wh) ELSE 0
             value == Max(0, required - moved)
         IN /\ value > 0 => i \in DOMAIN rem /\ rem[i] = value
            /\ value = 0 => i \notin DOMAIN rem
            /\ i \in DOMAIN rem => rem[i] > 0

\* WO-1 has one required item moved in full or beyond, which the map leaves
\* out, and one required item moved in part, which the map holds
C10_Witness ==
  LET rem == _remaining_map_for_wo(ledger, "WO-1")
      target_wh == TargetWh(workOrder["WO-1"])
  IN \E i, j \in Items :
       /\ bom.explosion[i] > 0
       /\ MovedInto("WO-1", i, target_wh) >= bom.explosion[i] * workOrder["WO-1"].qty
       /\ i \notin DOMAIN rem
       /\ j \in DOMAIN rem
       /\ MovedInto("WO-1", j, target_wh) > 0
       /\ rem[j] < bom.explosion[j] * workOrder["WO-1"].qty

----------------------------------------------------------------------------
(* Claims on the closure *)

\* the closure has passed its input checks
Closing == cp.pc \in {"run", "done"}

\* C11: for the ended work orders of a closure (a non-empty set with positive
\* total planned quantity), the good shares sum to the good quantity and the
\* reject shares to the reject quantity of the request, each share being the
\* aggregate * planned quantity / total planned quantity; the committed
\* Manufacture entries carry these shares
C11_ProportionalSplit ==
  Closing =>
    LET ended == cp.ended_wos
        den == total_wo_qty(ended)
        split == _calculate_proportional_split(ended, cp.good_qty, cp.reject_qty)
    IN /\ ended # <<>> /\ den > 0
       /\ SumSeq([i \in DOMAIN ended |-> split[ended[i]].good]) = cp.good_qty * den
       /\ SumSeq([i \in DOMAIN ended |-> split[ended[i]].reject]) = cp.reject_qty * den
       /\ \A i \in DOMAIN ended :
            /\ split[ended[i]].good = cp.good_qty * workOrder[ended[i]].qty
            /\ split[ended[i]].reject = cp.reject_qty * workOrder[ended[i]].qty
       /\ \A e \in CommittedBy("close") :
            /\ ledger[e].qty_den = den
            /\ ledger[e].items[1].qty = cp.good_qty * workOrder[ledger[e].work_order].qty

\* a closure of two ended orders of planned quantities 2 and 1 with good
\* quantity 2 and reject quantity 1 has committed its two Manufacture entries
C11_Witness ==
  /\ cp.pc = "done"
  /\ Len(cp.ended_wos) = 2
  /\ workOrder["WO-1"].qty = 2 /\ workOrder["WO-2"].qty = 1
  /\ cp.good_qty = 2 /\ cp.reject_qty = 1
  /\ Cardinality(CommittedBy("close")) = 2

\* the total planned quantity of the orders the closure request selects
SelectedQty == SumOver(EndedWos(cp.lines), [w \in WOs |-> workOrder[w].qty])

\* C12: a closure request whose selected orders' planned quantities sum to
\* zero or less, or whose good quantity is not positive, or whose reject
\* quantity is negative, fails: its first step ends it in the failed state
\* with no movement created and no work order marked Completed, and a failed
\* request takes no further step
C12_InputRejected ==
  [][/\ (/\ cp.pc = "idle" /\ cp' # cp
         /\ (cp.good_qty <= 0 \/ cp.reject_qty < 0 \/ SelectedQty <= 0))
        => /\ cp'.pc = "failed"
           /\ cp'.tx = <<>> /\ cp'.completed = <<>>
           /\ ledger' = ledger /\ workOrder' = workOrder
     /\ cp.pc = "failed" => cp' = cp]_vars

\* a request with good quantity 1 and reject quantity 0 that passes the
\* validation has failed on ended orders whose planned quantities sum to zero
C12_Witness ==
  /\ cp.pc = "failed"
  /\ cp.good_qty > 0 /\ cp.reject_qty >= 0
  /\ EndedWos(cp.lines) # {}
  /\ factorySettings = NoValidation
  /\ SelectedQty = 0
  /\ CommittedBy("close") = {}
  /\ \A w \in WOs : workOrder[w].status # "Completed"

----------------------------------------------------------------------------
(* Two runs of the fan-out on the same cart and the same selected orders *)

\* the selected orders carry any planned start dates and creation times;
\* WO-2 may have no BOM, and the BOM may have no rows
InitOrder ==
  /\ \E k \in [WOs -> [planned_start_date : PlannedDates, creation : CreationTimes]],
        b \in {"BOM-1", NULL} :
       workOrder =
         [w \in WOs |->
            [WorkOrderRow(k[w], 1, "WIP", NULL)
               EXCEPT !.bom_no = IF w = "WO-2" THEN b ELSE @]]
  /\ \E x \in 0..MaxPerUnit : bom = FlatBom(x, 0)
  /\ lineWarehouseMap = EmptyMap
  /\ factorySettings = NoValidation
  /\ itemMeta = [i \in Items |-> [has_batch_no |-> FALSE]]
  /\ ledger = <<>>
  /\ \E sel \in {{"WO-1"}, WOs}, q \in 1..MaxCartQty :
       cct = [c \in Calls |->
                IdleCall(sel, <<[item_code |-> "X", qty |-> q,
                                 batches |-> <<>>, batch_no |-> NULL]>>)]
  /\ cp = OffClose
  /\ queue = EmptyMap
  /\ batch = {}
  /\ batch_code = NULL
  /\ jobCard = NoCard
  /\ jcr = [r \in Claims |-> OffClaim]
  /\ cache = {}
  /\ scan = [s \in Scans |-> OffScan]

NextOrder == \E c \in Calls : FanOut(c)

SpecOrder == InitOrder /\ [][NextOrder]_vars

\* the requests whose allocation pass is over
Allocated == {c \in Calls : cct[c].pc \in {"create", "done"}}

\* C13: two runs of the fan-out with the same pool, the same selected orders
\* and the same remaining snapshot end their allocation pass with the same
\* per-order, per-item allocation
C13_Deterministic ==
  \A c, d \in Allocated :
     /\ cct[c].items = cct[d].items
     /\ cct[c].selected_wos = cct[d].selected_wos
     /\ cct[c].snapshot = cct[d].snapshot
     => cct[c].allocations = cct[d].allocations

\* the ordering key of the text: the planned start, or the creation time when
\* no planned start is set
OrderingKey(w) ==
  IF workOrder[w].planned_start_date = NoDate
  THEN workOrder[w].creation
  ELSE workOrder[w].planned_start_date

\* the order of the identifiers
NameBefore(a, b) == a = "WO-1" /\ b = "WO-2"

\* C14: the sequence in which a fan-out serves the selected work orders is
\* ascending in the ordering key (planned start, or creation when no planned
\* start is set), orders of equal key being in the order of their identifiers
C14_SortedByOrderingKey ==
  \A c \in Calls :
     cct[c].pc \in {"alloc", "create", "done"} =>
       \A i, j \in DOMAIN cct[c].wo_order :
          i < j =>
            LET a == cct[c].wo_order[i]
                b == cct[c].wo_order[j]
            IN \/ OrderingKey(a) < OrderingKey(b)
               \/ OrderingKey(a) = OrderingKey(b) /\ NameBefore(a, b)

----------------------------------------------------------------------------
(* Claims on the failures of the requirement computations *)

\* the work orders without a staging and without a WIP warehouse
NoTarget == {w \in WOs : TargetWh(workOrder[w]) = ""}

\* C15: the remaining requirement of a work order without a staging and
\* without a WIP warehouse is not computed: a fan-out, which computes the
\* remaining map of every selected order before it allocates, fails on such
\* an order instead of holding a remaining map for it
C15_NoTargetWarehouseFails ==
  \A c \in Calls :
     cct[c].selected_wos \cap NoTarget # {} =>
       cct[c].pc \in {"off", "idle", "failed"}

\* the work orders without a BOM reference
NoBom == {w \in WOs : workOrder[w].bom_no = NULL}

\* TRUE when the BOM has neither explosion rows nor item rows
BomWithoutLines ==
  \A i \in Items : bom.explosion[i] = 0 /\ bom.item[i].qty = 0

\* C16: the required map of a work order without a BOM reference is not
\* computed: a fan-out, which resolves the required map of every selected
\* order before it allocates, fails on such an order; a work order whose BOM
\* has no rows has the empty required map, and the fan-out goes on
C16_NoBomFails ==
  /\ \A c \in Calls :
        cct[c].selected_wos \cap NoBom # {} =>
          cct[c].pc \in {"off", "idle", "failed"}
  /\ \A w \in WOs \ NoBom :
        BomWithoutLines =>
          /\ _required_map_for_wo(w) = EmptyMap
          /\ _required_leaf_map_for_wo(w) = EmptyMap

----------------------------------------------------------------------------
(* The hub stages a cart while the queues are read and the operator acts   *)

\* the actions an operator request may name
ActionInputs == Actions \cup {"cancel"}

InitStatus ==
  /\ \E line \in {"L1", NULL} :
       /\ workOrder =
            [w \in WOs |->
               WorkOrderRow([planned_start_date |-> 1,
                             creation |-> IF w = "WO-1" THEN 1 ELSE 2],
                            1, "WIP", line)]
       /\ lineWarehouseMap = IF line = NULL THEN EmptyMap ELSE StagingMap
  /\ bom = FlatBom(Quantum, 0)
  /\ factorySettings = NoValidation
  /\ itemMeta = [i \in Items |-> [has_batch_no |-> FALSE]]
  /\ ledger = <<>>
  /\ \E sel \in {{"WO-1"}, WOs}, cart \in FlowCarts :
       cct = [c \in Calls |-> IF c = "c1" THEN IdleCall(sel, cart) ELSE OffCall]
  /\ cp = OffClose
  /\ queue = EmptyMap
  /\ batch = {}
  /\ batch_code = NULL
  /\ jobCard = NoCard
  /\ jcr = [r \in Claims |-> OffClaim]
  /\ cache = {}
  /\ scan = [s \in Scans |-> OffScan]

NextStatus ==
  \/ \E c \in Calls : FanOut(c)
  \/ \E w \in WOs : transfer_staged_to_wip(w)
  \/ get_queue
  \/ get_line_queue
  \/ \E w \in WOs, action \in ActionInputs : set_work_order_state(w, action)

SpecStatus == InitStatus /\ [][NextStatus]_vars

\* the ledger as the last status operation saw it
LedgerSeen == SubSeq(ledger, 1, queue.seen)

\* C17: in the response of every operation that reports or checks a stage
\* status, a work order whose status computation failed is reported Partial
\* if a committed transfer existed for it and Not Staged otherwise, and the
\* failure does not end the operation
C17_FallbackOnFailure ==
  DOMAIN queue # {} =>
    /\ queue.outcome # "exception"
    /\ \A w \in queue.failed_for :
          /\ w \in DOMAIN queue.stage_status
          /\ queue.stage_status[w] = StageStatusFallback(LedgerSeen, w)

----------------------------------------------------------------------------
(* Claims on the entries a fan-out creates *)

\* the committed entries of request c made for work order w
EntriesFor(c, w) == {e \in CommittedBy(c) : ledger[e].remarks_wo = w}

\* the positions of work order w in the transfers request c returns
ReturnedFor(c, w) == {i \in DOMAIN cct[c].created : cct[c].created[i] = w}

\* C18: when a fan-out has returned, a selected work order without any
\* allocation has no Stock Entry and is not among the returned transfers, and
\* a selected work order with an allocation has exactly one Stock Entry and
\* is returned once
C18_OneEntryPerAllocatedOrder ==
  \A c \in Calls :
     cct[c].pc = "done" =>
       \A w \in cct[c].selected_wos :
          IF DOMAIN cct[c].allocations[w] = {}
          THEN EntriesFor(c, w) = {} /\ ReturnedFor(c, w) = {}
          ELSE /\ Cardinality(EntriesFor(c, w)) = 1
               /\ Cardinality(ReturnedFor(c, w)) = 1
               /\ \A i \in DOMAIN cct[c].allocations[w] :
                     cct[c].allocations[w][i] > 0

\* a returned fan-out over both orders in which the pool went to one order
\* and the other received nothing
C18_Witness ==
  \E c \in Calls :
     /\ cct[c].pc = "done"
     /\ cct[c].selected_wos = WOs
     /\ \E w, v \in WOs :
          /\ DOMAIN cct[c].allocations[w] # {}
          /\ DOMAIN cct[c].allocations[v] = {}
          /\ Get(cct[c].snapshot[v], "X", 0) > 0
          /\ Cardinality(EntriesFor(c, w)) = 1
          /\ EntriesFor(c, v) = {}

----------------------------------------------------------------------------
(* The worked example of the batch split: a pool of 60 of item X picked as *)
(* batch B1 = 40 and batch B2 = 20, each order needing 50                  *)

\* quantity steps of the precision 3 per whole unit of quantity
StepsPerUnit == 1000

\* a whole unit of quantity
Whole == StepsPerUnit * Quantum

\* the cart of the example
ExampleCart ==
  <<[item_code |-> "X", qty |-> 60 * Whole,
     batches |-> <<[batch_no |-> "B1", qty |-> 40 * Whole],
                   [batch_no |-> "B2", qty |-> 20 * Whole]>>,
     batch_no |-> NULL]>>

InitExample ==
  /\ \E k \in WorkOrderKeys :
       workOrder = [w \in WOs |-> WorkOrderRow(k[w], 1, "WIP", NULL)]
  /\ bom = FlatBom(50 * Whole, 0)
  /\ lineWarehouseMap = EmptyMap
  /\ factorySettings = NoValidation
  /\ itemMeta = [i \in Items |-> [has_batch_no |-> (i = "X")]]
  /\ ledger = <<>>
  /\ \E sel \in [Calls -> {{"WO-1"}, WOs}] :
       cct = [c \in Calls |-> IdleCall(sel[c], ExampleCart)]
  /\ cp = OffClose
  /\ queue = EmptyMap
  /\ batch = {}
  /\ batch_code = NULL
  /\ jobCard = NoCard
  /\ jcr = [r \in Claims |-> OffClaim]
  /\ cache = {}
  /\ scan = [s \in Scans |-> OffScan]

SpecExample == InitExample /\ [][NextAlloc]_vars

\* C19: in the example, the entry committed for an order that was allocated
\* 50 of X carries 40 of batch B1 and 10 of batch B2
C19_ExampleSplit ==
  \A c \in Calls :
     cct[c].pc = "done" =>
       \A w \in cct[c].selected_wos :
          Get(cct[c].allocations[w], "X", 0) = 50 * Whole =>
            \A e \in EntriesFor(c, w) :
               /\ EntryBatchQty(ledger[e], "X", "B1") = 40 * Whole
               /\ EntryBatchQty(ledger[e], "X", "B2") = 10 * Whole

----------------------------------------------------------------------------
(* mes_ops.py: scan_material, one request per element of Scans.  The raw   *)
(* code is the sequence of its '|'-separated parts (item, batch, quantity  *)
(* in whole units).  No item-group allow list and no packaging groups are  *)
(* configured.  All requests happen within the duplicate TTL of the first: *)
(* no cache key expires.                                                   *)

\* _scan_cache_key(work_order, raw_code): one key per pair
_scan_cache_key(work_order, raw_code) == <<work_order, raw_code>>

\* _parse_gs1_or_basic for the 'ITEM|BATCH|QTY' form; the quantity defaults
\* to 1 at the caller
_parse_gs1_or_basic(code) ==
  [item_code |-> IF Len(code) >= 1 THEN code[1] ELSE NULL,
   batch_no |-> IF Len(code) >= 2 THEN code[2] ELSE NULL,
   qty |-> (IF Len(code) >= 3 THEN code[3] ELSE 1) * Whole]

\* _validate_item_in_bom: the order has a BOM with a BOM Item row of the item
_validate_item_in_bom(w, item_code) ==
  workOrder[w].bom_no # NULL /\ bom.item[item_code].qty > 0

\* consumption already posted for the order and the item
already_consumed(led, w, item_code) ==
  LET rows == {r \in AllLines(led) :
                 /\ led[r[1]].work_order = w
                 /\ led[r[1]].purpose = "Material Consumption for Manufacture"
                 /\ led[r[1]].items[r[2]].item_code = item_code}
  IN SumOver(rows, [r \in rows |-> led[r[1]].items[r[2]].qty])

\* default of Factory Settings.material_overconsumption_threshold, in percent
threshold_pct == 150

\* the 'Material Consumption for Manufacture' entry of a scan
ConsumptionEntry(s, w, parsed) ==
  [purpose |-> "Material Consumption for Manufacture", work_order |-> w,
   to_warehouse |-> NULL, remarks_wo |-> NULL, request |-> s, qty_den |-> 1,
   items |-> <<[item_code |-> parsed.item_code, qty |-> parsed.qty,
                t_warehouse |-> _default_line_wip(w),
                batch_no |-> parsed.batch_no]>>]

\* the request returns msg
ScanDone(s, msg) == scan' = [scan EXCEPT ![s].pc = "done", ![s].msg = msg, ![s].tx = <<>>]

\* _has_recent_duplicate, first half: cache.get_value(key)
ScanCheck(s) ==
  /\ scan[s].pc = "idle"
  /\ LET key == _scan_cache_key(scan[s].work_order, scan[s].code) IN
       IF key \in cache
       THEN ScanDone(s, "Duplicate scan ignored")
       ELSE scan' = [scan EXCEPT ![s].pc = "set"]
  /\ UNCHANGED <<dbVars, ledger, cct, cp, queue, cache, batchVars, cardVars>>

\* _has_recent_duplicate, second half: cache.set_value(key, "1", ttl)
ScanSet(s) ==
  /\ scan[s].pc = "set"
  /\ cache' = cache \cup {_scan_cache_key(scan[s].work_order, scan[s].code)}
  /\ scan' = [scan EXCEPT ![s].pc = "validate"]
  /\ UNCHANGED <<dbVars, ledger, cct, cp, queue, batchVars, cardVars>>

\* a validation without the over-consumption check
ScanValidate_NoThreshold(s) ==
  /\ scan[s].pc = "validate"
  /\ LET w == scan[s].work_order
         parsed == _parse_gs1_or_basic(scan[s].code)
         item_code == parsed.item_code
         bom_required == bom.item[item_code].qty * workOrder[w].qty
         total_after_scan == already_consumed(ledger, w, item_code) + parsed.qty
     IN IF item_code = NULL
        THEN ScanDone(s, "Cannot parse item from code")
        ELSE IF itemMeta[item_code].has_batch_no /\ parsed.batch_no = NULL
        THEN ScanDone(s, "Batch number required")
        ELSE IF ~_validate_item_in_bom(w, item_code)
        THEN ScanDone(s, "Item not in BOM")
        ELSE \E in_stock \in BOOLEAN :
               IF ~in_stock
               THEN ScanDone(s, "Insufficient stock")
               ELSE scan' = [scan EXCEPT ![s].pc = "post",
                                         ![s].tx = <<ConsumptionEntry(s, w, parsed)>>]
  /\ UNCHANGED <<dbVars, ledger, cct, cp, queue, cache, batchVars, cardVars>>

\* parsing and the checks of batch, BOM membership, over-consumption and
\* stock (the Bin quantity is an input), then the entry is built
ScanValidate(s) ==
  /\ scan[s].pc = "validate"
  /\ LET w == scan[s].work_order
         parsed == _parse_gs1_or_basic(scan[s].code)
         item_code == parsed.item_code
         bom_required == bom.item[item_code].qty * workOrder[w].qty
         total_after_scan == already_consumed(ledger, w, item_code) + parsed.qty
     IN IF item_code = NULL
        THEN ScanDone(s, "Cannot parse item from code")
        ELSE IF itemMeta[item_code].has_batch_no /\ parsed.batch_no = NULL
        THEN ScanDone(s, "Batch number required")
        ELSE IF ~_validate_item_in_bom(w, item_code)
        THEN ScanDone(s, "Item not in BOM")
        ELSE IF 100 * total_after_scan > threshold_pct * bom_required
        THEN ScanDone(s, "Excessive quantity")
        ELSE \E in_stock \in BOOLEAN :
               IF ~in_stock
               THEN ScanDone(s, "Insufficient stock")
               ELSE scan' = [scan EXCEPT ![s].pc = "post",
                                         ![s].tx = <<ConsumptionEntry(s, w, parsed)>>]
  /\ UNCHANGED <<dbVars, ledger, cct, cp, queue, cache, batchVars, cardVars>>

\* se.insert() / se.submit() raising: the exception is logged and answered
ScanFail(s) ==
  /\ scan[s].pc = "post"
  /\ ScanDone(s, "Failed to consume material")
  /\ UNCHANGED <<dbVars, ledger, cct, cp, queue, cache, batchVars, cardVars>>

\* the entry is submitted and the request returns
ScanReturn(s) ==
  /\ scan[s].pc = "post"
  /\ ledger' = ledger \o scan[s].tx
  /\ ScanDone(s, "Consumed")
  /\ UNCHANGED <<dbVars, cct, cp, queue, cache, batchVars, cardVars>>

scan_material(s) ==
  \/ ScanCheck(s)
  \/ ScanSet(s)
  \/ ScanValidate(s)
  \/ ScanFail(s)
  \/ ScanReturn(s)

\* a scan request that has been received and not yet run
IdleScan(w, code) == [OffScan EXCEPT !.pc = "idle", !.work_order = w, !.code = code]

\* raw codes: item alone, item with batch, item with batch and quantity
ScanCodes == {<<"X">>, <<"X", "B1">>, <<"X", "B1", 2>>, <<"Y", "B1">>}

InitScan ==
  /\ workOrder = [w \in WOs |->
       WorkOrderRow([planned_start_date |-> 1, creation |-> 1], 1, "WIP", NULL)]
  /\ \E x \in 1..MaxPerUnit : bom = FlatBom(x * Whole, 0)
  /\ lineWarehouseMap = EmptyMap
  /\ factorySettings = NoValidation
  /\ \E b \in BOOLEAN : itemMeta = [i \in Items |-> [has_batch_no |-> b]]
  /\ ledger = <<>>
  /\ cct = [c \in Calls |-> OffCall]
  /\ cp = OffClose
  /\ queue = EmptyMap
  /\ batch = {}
  /\ batch_code = NULL
  /\ jobCard = NoCard
  /\ jcr = [r \in Claims |-> OffClaim]
  /\ cache = {}
  /\ \E w \in [Scans -> WOs], code \in [Scans -> ScanCodes] :
       scan = [s \in Scans |-> IdleScan(w[s], code[s])]

NextScan == \E s \in Scans : scan_material(s)

SpecScan == InitScan /\ [][NextScan]_vars

\* the scan requests of a work order and raw code that have returned
Returned(w, code) ==
  {s \in Scans : scan[s].pc = "done" /\ scan[s].work_order = w /\ scan[s].code = code}

\* C20: for every work order and raw code, at most one scan_material request
\* posts a material consumption, and when one has posted, every other
\* request that has returned answered 'Duplicate scan ignored'
C20_AtMostOneConsumption ==
  \A w \in WOs, code \in ScanCodes :
     /\ Cardinality({e \in DOMAIN ledger :
                       /\ ledger[e].request \in Returned(w, code)
                       /\ ledger[e].purpose = "Material Consumption for Manufacture"}) <= 1
     /\ \A s \in Returned(w, code) :
           scan[s].msg = "Consumed" =>
             \A t \in Returned(w, code) \ {s} :
                scan[t].msg = "Duplicate scan ignored"

----------------------------------------------------------------------------
(* mes_ops.py: batch codes.  A batch id is the sequence of its characters; *)
(* batch is the set of the batch ids of the Batch table.                   *)

\* digit to letter mapping of the year part (letter of digit d at d + 1)
digit_map == <<"A", "B", "C", "D", "E", "F", "G", "H", "I", "J">>

\* A=Jan through L=Dec
month_letters == <<"A", "B", "C", "D", "E", "F", "G", "H", "I", "J", "K", "L">>

\* the characters of the decimal digits (character of digit d at d + 1)
DigitChars == <<"0", "1", "2", "3", "4", "5", "6", "7", "8", "9">>

\* str(n) for a digit n
StrDigit(n) == DigitChars[n + 1]

IsDigit(ch) == \E n \in 0..9 : DigitChars[n + 1] = ch

\* int(ch) for a digit character
IntOf(ch) == CHOOSE n \in 0..9 : DigitChars[n + 1] = ch

\* the 6 characters of year, month, dash and zero-padded day
_get_batch_code_prefix(date) ==
  <<digit_map[((date.year % 100) \div 10) + 1], digit_map[(date.year % 10) + 1],
    month_letters[date.month], "-",
    StrDigit(date.day \div 10), StrDigit(date.day % 10)>>

\* the prefix followed by the last digit of the sequence
generate_batch_code(date, sequence) ==
  _get_batch_code_prefix(date) \o <<StrDigit(sequence % 10)>>

\* rank of a character in the collation: digits before letters
CharRank(ch) == IF IsDigit(ch) THEN IntOf(ch) ELSE 10

\* a <= b in the order of the strings
RECURSIVE StrLeq(_, _)
StrLeq(a, b) ==
  \/ a = <<>>
  \/ /\ b # <<>>
     /\ \/ CharRank(Head(a)) < CharRank(Head(b))
        \/ CharRank(Head(a)) = CharRank(Head(b)) /\ StrLeq(Tail(a), Tail(b))

\* the characters after the prefix
Suffix(id) == SubSeq(id, 7, Len(id))

\* WHERE batch_id LIKE prefix%
BatchesLike(date) ==
  {id \in batch : Len(id) >= 6 /\ SubSeq(id, 1, 6) = _get_batch_code_prefix(date)}

\* a next sequence that is not capped
_get_next_batch_sequence_NoCap(date) ==
  IF BatchesLike(date) = {} THEN 1
  ELSE LET last_batch == CHOOSE id \in BatchesLike(date) :
                            \A other \in BatchesLike(date) :
                               StrLeq(Suffix(other), Suffix(id))
       IN IF Len(last_batch) >= 7 /\ IsDigit(last_batch[7])
          THEN IntOf(last_batch[7]) + 1
          ELSE 1

\* 1 without a batch of the prefix; else from the 7th character of the
\* batch id that is last in ORDER BY batch_id: its digit + 1 capped at 9, or
\* 1 when the id has no 7th character or it is no digit
_get_next_batch_sequence(date) ==
  IF BatchesLike(date) = {} THEN 1
  ELSE LET last_batch == CHOOSE id \in BatchesLike(date) :
                            \A other \in BatchesLike(date) :
                               StrLeq(Suffix(other), Suffix(id))
       IN IF Len(last_batch) >= 7 /\ IsDigit(last_batch[7])
          THEN Min(IntOf(last_batch[7]) + 1, 9)
          ELSE 1

\* generate_next_batch_code(date): the code is returned to the screen
generate_next_batch_code(date) ==
  /\ batch_code = NULL
  /\ jobCard = NoCard
  /\ jcr = [r \in Claims |-> OffClaim]
  /\ batch_code' = generate_batch_code(date, _get_next_batch_sequence(date))
  /\ UNCHANGED <<dbVars, ledger, cct, cp, queue, scanVars, batch, cardVars>>

\* _ensure_batch(item_code, batch_no) with the code the screen holds: the
\* batch is created unless it exists
_ensure_batch ==
  /\ batch_code # NULL
  /\ batch' = batch \cup {batch_code}
  /\ batch_code' = NULL
  /\ UNCHANGED <<dbVars, ledger, cct, cp, queue, scanVars, cardVars>>

\* production dates
Dates == {[year |-> 2026, month |-> 2, day |-> 15],
          [year |-> 2026, month |-> 10, day |-> 31]}

\* batch ids entered by hand or received from suppliers that begin like the
\* codes of a production date: without sequence, with a letter, with a digit
ForeignIds ==
  UNION {{_get_batch_code_prefix(d), _get_batch_code_prefix(d) \o <<"X">>,
          generate_batch_code(d, 3)} : d \in Dates}

InitBatch ==
  /\ workOrder = [w \in WOs |->
       WorkOrderRow([planned_start_date |-> 1, creation |-> 1], 1, "WIP", NULL)]
  /\ bom = FlatBom(Quantum, 0)
  /\ lineWarehouseMap = EmptyMap
  /\ factorySettings = NoValidation
  /\ itemMeta = [i \in Items |-> [has_batch_no |-> FALSE]]
  /\ ledger = <<>>
  /\ cct = [c \in Calls |-> OffCall]
  /\ cp = OffClose
  /\ queue = EmptyMap
  /\ cache = {}
  /\ scan = [s \in Scans |-> OffScan]
  /\ batch \in SUBSET ForeignIds
  /\ batch_code = NULL
  /\ jobCard = NoCard
  /\ jcr = [r \in Claims |-> OffClaim]

NextBatch ==
  \/ \E date \in Dates : generate_next_batch_code(date)
  \/ _ensure_batch

SpecBatch == InitBatch /\ [][NextBatch]_vars

\* C21: the code generate_next_batch_code returns is not the id of an
\* existing batch
C21_NextCodeUnused == batch_code # NULL => batch_code \notin batch

\* the batches of a date that are codes of the generated form
CodesOf(date) == {id \in BatchesLike(date) : Len(id) = 7 /\ IsDigit(id[7])}

\* C22: _get_next_batch_sequence returns 1 when no batch has the prefix of
\* the date; when the batches of the prefix are codes of the generated form
\* it returns the highest sequence digit among them plus one, and 9 when
\* that digit is 9
C22_NextSequence ==
  \A date \in Dates :
     /\ BatchesLike(date) = {} => _get_next_batch_sequence(date) = 1
     /\ (BatchesLike(date) # {} /\ CodesOf(date) = BatchesLike(date)) =>
          LET highest == CHOOSE n \in 0..9 :
                           /\ \E id \in CodesOf(date) : IntOf(id[7]) = n
                           /\ \A id \in CodesOf(date) : IntOf(id[7]) <= n
          IN _get_next_batch_sequence(date) = IF highest = 9 THEN 9 ELSE highest + 1

\* the batches of a date are the codes of sequence 1 to 9, and the next
\* sequence is 9 again
C22_Witness ==
  \E date \in Dates :
     /\ CodesOf(date) = {generate_batch_code(date, n) : n \in 1..9}
     /\ BatchesLike(date) = CodesOf(date)
     /\ _get_next_batch_sequence(date) = 9


----------------------------------------------------------------------------
(* C23: committed fan-out transfers and the remaining map *)

\* the quantity of an item on the lines a returned request wrote for an order
TransferredBy(c, w, i) ==
  LET rows == {<<e, l>> \in EntriesFor(c, w) \X (1..MaxLedger * 4) :
                  /\ l \in DOMAIN ledger[e].items
                  /\ ledger[e].items[l].item_code = i}
  IN SumOver(rows, [r \in rows |-> ledger[r[1]].items[r[2]].qty])

\* C23: after create_consolidated_transfers returned, the remaining map of
\* each order it served is lower than the one the request read by at least
\* the quantity the request transferred for the order, floored at zero
C23_TransfersCountAsMoved ==
  \A c \in Calls : \A w \in WOs : \A i \in Items :
     (cct[c].pc = "done" /\ w \in cct[c].selected_wos /\ TransferredBy(c, w, i) > 0) =>
        Get(_remaining_map_for_wo(ledger, w), i, 0) <=
          Max(0, Get(cct[c].snapshot[w], i, 0) - TransferredBy(c, w, i))


----------------------------------------------------------------------------
(* C24: transferred quantity against picked quantity *)

\* the quantity picked of an item: the cart rows of the item
PickedQty(c, item) ==
  LET rows == {n \in DOMAIN cct[c].items : cct[c].items[n].item_code = item}
  IN SumOver(rows, [n \in rows |-> cct[c].items[n].qty])

\* the quantity of an item on the lines of all entries of a request
WrittenQty(c, item) ==
  SumOver(EntriesOf(c), [e \in EntriesOf(c) |-> EntryItemQty(ledger[e], item)])

\* C24: for every cart item, the quantity on the transfer lines of the item
\* over all Stock Entries of one create_consolidated_transfers call is at
\* most the quantity picked of the item in the cart
C24_WrittenWithinPicked ==
  \A c \in Calls : \A item \in Items :
     cct[c].pc = "done" => WrittenQty(c, item) <= PickedQty(c, item)


----------------------------------------------------------------------------
(* C25: the stage status gate of set_work_order_state *)

\* C25: a step that changes a work order (status, actual start or end date)
\* is a set_work_order_state that found the order Staged, and a
\* set_work_order_state with action start, pause, stop, resume or reopen that
\* answers otherwise than ok changes neither a work order nor the ledger
C25_RejectedUnlessStaged ==
  [][/\ \A w \in WOs :
          workOrder'[w] # workOrder[w] =>
            /\ _stage_status(ledger, w) = "Staged"
            /\ queue'.op = "set_work_order_state" /\ queue'.wo = w
            /\ queue'.outcome = "ok" /\ queue'.action \in Actions
     /\ (/\ queue' # queue
         /\ queue'.op = "set_work_order_state"
         /\ queue'.action \in Actions
         /\ _stage_status(ledger, queue'.wo) # "Staged") =>
            /\ queue'.outcome \in {"not_staged", "exception"}
            /\ workOrder' = workOrder
            /\ ledger' = ledger]_vars

\* a start was rejected for an order that is not Staged although a transfer
\* of the fan-out is committed and rows wait in its staging warehouse
C25_Witness ==
  /\ DOMAIN queue # {}
  /\ queue.op = "set_work_order_state"
  /\ queue.action = "start"
  /\ queue.outcome = "not_staged"
  /\ queue.stage_status[queue.wo] # "Staged"
  /\ queue.seen = Len(ledger)
  /\ ledger # <<>>
  /\ workOrder[queue.wo].status = "Not Started"
  /\ workOrder[queue.wo].actual_start_date = NoDate


----------------------------------------------------------------------------
(* mes_ops.py: end_work_order and complete_work_order *)

\* sfg_usage of a request: none, a semi-finished row of the BOM, a row of an
\* item that is not on the BOM
SfgUsages ==
  {<<>>, <<[item_code |-> "X", qty |-> Quantum]>>,
         <<[item_code |-> "Y", qty |-> Quantum]>>}

\* the rows _post_sfg_consumption keeps: those with a positive qty
RECURSIVE SfgRows(_)
SfgRows(rows) ==
  IF rows = <<>> THEN <<>>
  ELSE (IF Head(rows).qty > 0 THEN <<Head(rows)>> ELSE <<>>) \o SfgRows(Tail(rows))

\* the 'Material Consumption for Manufacture' entry of _post_sfg_consumption
SfgEntry(w, rows) ==
  [purpose |-> "Material Consumption for Manufacture", work_order |-> w,
   to_warehouse |-> NULL, remarks_wo |-> NULL, request |-> "operator",
   qty_den |-> 1,
   items |-> [k \in DOMAIN rows |->
                [item_code |-> rows[k].item_code, qty |-> rows[k].qty,
                 t_warehouse |-> _default_line_wip(w), batch_no |-> NULL]]]

\* _post_sfg_consumption raises: a row of an item that is not on the BOM
SfgRejected(w, rows) ==
  \E k \in DOMAIN rows : ~_validate_item_in_bom(w, rows[k].item_code)

\* an end_work_order that does not look at the ended flag
end_work_order_NoEndedCheck(w) ==
  \E sfg_usage \in SfgUsages, submitted \in BOOLEAN :
    LET wo == workOrder[w]
        sfg_rows == SfgRows(sfg_usage)
        Answer(outcome) ==
          queue' = Response("end_work_order", w, NULL, {}, outcome, EmptyMap)
    IN IF wo.status \notin {"Not Started", "In Process"}
       THEN /\ Answer("bad_status")
            /\ UNCHANGED <<dbVars, ledger, cct, cp, scanVars, batchVars, cardVars>>
       ELSE IF sfg_rows # <<>> /\ (SfgRejected(w, sfg_rows) \/ ~submitted)
       THEN /\ Answer("exception")
            /\ UNCHANGED <<dbVars, ledger, cct, cp, scanVars, batchVars, cardVars>>
       ELSE /\ Answer("ok")
            /\ IF sfg_rows # <<>>
               THEN Len(ledger) < MaxLedger /\ ledger' = Append(ledger, SfgEntry(w, sfg_rows))
               ELSE ledger' = ledger
            /\ workOrder' = [workOrder EXCEPT ![w].custom_production_ended = 1]
            /\ UNCHANGED <<cfgVars, cct, cp, scanVars, batchVars, cardVars>>

\* end_work_order(work_order, sfg_usage): the status check, the ended check,
\* the semi-finished consumption, then the ended flag, committed with the
\* consumption; a throw leaves nothing behind
end_work_order(w) ==
  \E sfg_usage \in SfgUsages, submitted \in BOOLEAN :
    LET wo == workOrder[w]
        sfg_rows == SfgRows(sfg_usage)
        Answer(outcome) ==
          queue' = Response("end_work_order", w, NULL, {}, outcome, EmptyMap)
    IN IF wo.status \notin {"Not Started", "In Process"}
       THEN /\ Answer("bad_status")
            /\ UNCHANGED <<dbVars, ledger, cct, cp, scanVars, batchVars, cardVars>>
       ELSE IF wo.custom_production_ended # 0
       THEN /\ Answer("already_ended")
            /\ UNCHANGED <<dbVars, ledger, cct, cp, scanVars, batchVars, cardVars>>
       ELSE IF sfg_rows # <<>> /\ (SfgRejected(w, sfg_rows) \/ ~submitted)
       THEN /\ Answer("exception")
            /\ UNCHANGED <<dbVars, ledger, cct, cp, scanVars, batchVars, cardVars>>
       ELSE /\ Answer("ok")
            /\ IF sfg_rows # <<>>
               THEN Len(ledger) < MaxLedger /\ ledger' = Append(ledger, SfgEntry(w, sfg_rows))
               ELSE ledger' = ledger
            /\ workOrder' = [workOrder EXCEPT ![w].custom_production_ended = 1]
            /\ UNCHANGED <<cfgVars, cct, cp, scanVars, batchVars, cardVars>>

\* good and rejects of a complete_work_order request
CompleteQtys == {<<0, 0>>, <<1, -1>>, <<1, 0>>, <<1, 1>>}

\* complete_work_order(work_order, good, rejects, sfg_usage): the input
\* checks, the Manufacture entry, the semi-finished consumption, the rejects
\* and the status; the status of the order is not looked at
complete_work_order(w) ==
  \E qtys \in CompleteQtys, sfg_usage \in SfgUsages, submitted \in BOOLEAN :
    LET good == qtys[1]
        rejects == qtys[2]
        wo == workOrder[w]
        sfg_rows == SfgRows(sfg_usage)
        se == [ManufactureEntry(w, [good |-> good, reject |-> rejects], 1)
                 EXCEPT !.request = "operator"]
        posted == <<se>> \o (IF sfg_rows # <<>> THEN <<SfgEntry(w, sfg_rows)>> ELSE <<>>)
        Answer(outcome) ==
          queue' = Response("complete_work_order", w, NULL, {}, outcome, EmptyMap)
    IN IF good <= 0 \/ rejects < 0
       THEN /\ Answer("bad_input")
            /\ UNCHANGED <<dbVars, ledger, cct, cp, scanVars, batchVars, cardVars>>
       ELSE IF ~submitted \/ (sfg_rows # <<>> /\ SfgRejected(w, sfg_rows))
       THEN /\ Answer("exception")
            /\ UNCHANGED <<dbVars, ledger, cct, cp, scanVars, batchVars, cardVars>>
       ELSE /\ Answer("ok")
            /\ Len(ledger) + Len(posted) <= MaxLedger
            /\ ledger' = ledger \o posted
            /\ workOrder' =
                 [workOrder EXCEPT ![w] =
                    [wo EXCEPT !.status = "Completed",
                               !.actual_end_date = now,
                               !.custom_rejects_qty =
                                  IF rejects # 0 THEN AddFrac(@, <<rejects, 1>>) ELSE @]]
            /\ UNCHANGED <<cfgVars, cct, cp, scanVars, batchVars, cardVars>>

\* the ledger after the cart of an order was fanned out and its rows moved
\* from staging to WIP (the committed entries of create_consolidated_transfers
\* and transfer_staged_to_wip)
StagedLedger(w) ==
  LET line == [item_code |-> "X", qty |-> Quantum, t_warehouse |-> "WIP",
               batch_no |-> NULL]
  IN <<StagingEntry("c1", w, "WIP", <<line>>),
       [purpose |-> "Material Transfer for Manufacture", work_order |-> w,
        to_warehouse |-> "WIP", remarks_wo |-> NULL, request |-> "operator",
        qty_den |-> 1, items |-> <<line>>]>>

\* One line without Line Warehouse Map: staging, WIP and target are the
\* default warehouse.  WO-1 may have been staged; orders are started,
\* paused, ended, completed and closed.
InitLife ==
  /\ workOrder =
       [w \in WOs |->
          WorkOrderRow([planned_start_date |-> 1,
                        creation |-> IF w = "WO-1" THEN 1 ELSE 2],
                       1, "WIP", NULL)]
  /\ lineWarehouseMap = EmptyMap
  /\ bom = FlatBom(Quantum, 0)
  /\ factorySettings = NoValidation
  /\ itemMeta = [i \in Items |-> [has_batch_no |-> FALSE]]
  /\ ledger \in {<<>>, StagedLedger("WO-1")}
  /\ cct = [c \in Calls |-> OffCall]
  /\ cp = IdleClose(1, 0, {})
  /\ queue = EmptyMap
  /\ batch = {}
  /\ batch_code = NULL
  /\ jobCard = NoCard
  /\ jcr = [r \in Claims |-> OffClaim]
  /\ cache = {}
  /\ scan = [s \in Scans |-> OffScan]

\* the order the operator of the line works on
LifeWOs == {"WO-1"}

NextLife ==
  \/ \E w \in LifeWOs, action \in ActionInputs : set_work_order_state(w, action)
  \/ \E w \in LifeWOs : end_work_order(w)
  \/ \E w \in LifeWOs : complete_work_order(w)
  \/ close_production

SpecLife == InitLife /\ [][NextLife]_vars

\* the Manufacture entries of an order
ManufactureEntries(led, w) ==
  {e \in DOMAIN led : led[e].purpose = "Manufacture" /\ led[e].work_order = w}

\* C26: once a work order is Completed no step changes its status and no
\* step adds a Manufacture entry for it
C26_CompletedTerminal ==
  [][\A w \in WOs :
        workOrder[w].status = "Completed" =>
          /\ workOrder'[w].status = "Completed"
          /\ ManufactureEntries(ledger', w) = ManufactureEntries(ledger, w)]_vars


----------------------------------------------------------------------------
(* C27: two close_production requests for the same lines *)

\* a second close_production request with the arguments of the first,
\* handled by another worker: the whole handler, from the read of the ended
\* work orders to the commit, next to the steps of the first request
close_production_second ==
  /\ queue = EmptyMap
  /\ cp.pc # "off"
  /\ \E failed \in BOOLEAN :
       LET Answer(outcome) ==
             queue' = Response("close_production", NULL, NULL, {}, outcome, EmptyMap)
       IN IF \/ cp.good_qty <= 0
             \/ cp.reject_qty < 0
             \/ EndedWos(cp.lines) = {}
          THEN /\ Answer("exception")
               /\ UNCHANGED <<dbVars, ledger, cct, cp, scanVars, batchVars, cardVars>>
          ELSE \E ended \in ended_wos(cp.lines) :
                 IF \/ ~_validate_close_production(cp.lines, ended)
                    \/ total_wo_qty(ended) <= 0
                    \/ failed
                 THEN /\ Answer("exception")
                      /\ UNCHANGED <<dbVars, ledger, cct, cp, scanVars, batchVars, cardVars>>
                 ELSE LET den == total_wo_qty(ended)
                          splits == _calculate_proportional_split(ended, cp.good_qty,
                                                                  cp.reject_qty)
                      IN /\ Answer("ok")
                         /\ ledger' = ledger \o
                              [k \in DOMAIN ended |->
                                 [ManufactureEntry(ended[k], splits[ended[k]], den)
                                    EXCEPT !.request = "close2"]]
                         /\ workOrder' =
                              [w \in WOs |->
                                 IF \E k \in DOMAIN ended : ended[k] = w
                                 THEN Closed(w, den)
                                 ELSE workOrder[w]]
                         /\ UNCHANGED <<cfgVars, cct, cp, scanVars, batchVars, cardVars>>

\* Two orders of line L1, each ended by end_work_order or not, and two
\* closure requests with the same arguments
InitCloseTwice ==
  /\ \E ended \in [WOs -> {0, 1}] :
       workOrder =
         [w \in WOs |->
            [WorkOrderRow([planned_start_date |-> 1,
                           creation |-> IF w = "WO-1" THEN 1 ELSE 2],
                          1, "WIP", "L1")
               EXCEPT !.custom_production_ended = ended[w]]]
  /\ bom = FlatBom(Quantum, 0)
  /\ lineWarehouseMap = EmptyMap
  /\ factorySettings \in CloseSettings
  /\ itemMeta = [i \in Items |-> [has_batch_no |-> FALSE]]
  /\ ledger = <<>>
  /\ cct = [c \in Calls |-> OffCall]
  /\ \E g \in GoodQtys, r \in RejectQtys, lines \in {{}, {"L1"}} :
       cp = IdleClose(g, r, lines)
  /\ queue = EmptyMap
  /\ batch = {}
  /\ batch_code = NULL
  /\ jobCard = NoCard
  /\ jcr = [r \in Claims |-> OffClaim]
  /\ cache = {}
  /\ scan = [s \in Scans |-> OffScan]

NextCloseTwice ==
  \/ close_production
  \/ close_production_second

SpecCloseTwice == InitCloseTwice /\ [][NextCloseTwice]_vars

\* the orders the second request completed
CompletedBySecond ==
  {ledger[e].work_order : e \in {x \in DOMAIN ledger : ledger[x].request = "close2"}}

\* the orders the first request completed
CompletedByFirst ==
  IF cp.pc = "done" THEN {cp.completed[k] : k \in DOMAIN cp.completed} ELSE {}

\* C27: an ended work order has at most one Manufacture entry, and at most
\* one of two close_production requests has marked it Completed
C27_ClosedOnce ==
  \A w \in WOs :
     /\ Cardinality(ManufactureEntries(ledger, w)) <= 1
     /\ ~(w \in CompletedByFirst /\ w \in CompletedBySecond)


----------------------------------------------------------------------------
(* C28: end_work_order *)

\* C28: an end_work_order that succeeds found the order Not Started or In
\* Process and not ended; every other end_work_order fails and leaves the
\* work orders (the ended flag with them) and the ledger as they were
C28_EndOnlyOnce ==
  [][(cp' = cp /\ DOMAIN queue' # {} /\ queue'.op = "end_work_order") =>
       LET wo == workOrder[queue'.wo]
           allowed == /\ wo.status \in {"Not Started", "In Process"}
                      /\ wo.custom_production_ended = 0
       IN /\ queue'.outcome = "ok" => allowed
          /\ ~allowed => queue'.outcome \in {"bad_status", "already_ended"}
          /\ queue'.outcome # "ok" => ledger' = ledger /\ workOrder' = workOrder]_vars

\* a second end_work_order was refused for an order whose first
\* end_work_order posted a semi-finished consumption
C28_Witness ==
  /\ DOMAIN queue # {}
  /\ queue.op = "end_work_order"
  /\ queue.outcome = "already_ended"
  /\ workOrder[queue.wo].custom_production_ended = 1
  /\ queue.seen = Len(ledger)
  /\ \E e \in DOMAIN ledger :
        /\ ledger[e].purpose = "Material Consumption for Manufacture"
        /\ ledger[e].work_order = queue.wo


----------------------------------------------------------------------------
(* mes_ops.py: job control.  jobCard is the Job Card with its time logs as *)
(* committed; a claim_job_card request (jcr) loads the document, then      *)
(* saves it, recounts and returns.  jc.save() holds the row of the Job     *)
(* Card until the request ends, so the save, the recount and the end of a  *)
(* request are one step.  A document loaded before another request saved   *)
(* the Job Card is stale: its save either raises (the timestamp check of   *)
(* Document.save) or adds the new row to the rows now present.             *)

\* the most rows of the time log table
MaxLogs == 3

\* Factory Settings.max_active_operators, 2 when unset
_max_active_ops == 2

Emps == {"e1", "e2"}

\* the rows with to_time unset
OpenLogs(logs) == {i \in DOMAIN logs : logs[i].to_time = NoDate}

_open_log_count(logs) == Cardinality(OpenLogs(logs))

\* a new time log
NewLog(emp) == [employee |-> emp, to_time |-> NoDate]

\* the rows with to_time set to now on the rows of the set
CloseLogs(logs, rows) ==
  [i \in DOMAIN logs |-> IF i \in rows THEN [logs[i] EXCEPT !.to_time = now] ELSE logs[i]]

\* the request fails: nothing of it is committed
ClaimFail(r, msg) ==
  jcr' = [jcr EXCEPT ![r] = [OffClaim EXCEPT !.pc = "failed", !.msg = msg,
                                             !.employee = jcr[r].employee]]

\* another request has saved the Job Card: the documents loaded before are stale
Staled(reqs, saver) ==
  [r \in Claims |->
     IF r # saver /\ reqs[r].pc = "save" THEN [reqs[r] EXCEPT !.stale = TRUE]
     ELSE reqs[r]]

\* claim_job_card, lines 780-789: the document and the open logs are read,
\* the employee must not be on the job and the job must have room
ClaimLoad(r) ==
  /\ jcr[r].pc = "idle"
  /\ LET emp == jcr[r].employee
         open_logs == OpenLogs(jobCard.time_logs)
     IN IF \E i \in open_logs : jobCard.time_logs[i].employee = emp
        THEN ClaimFail(r, "You already joined this job")
        ELSE IF Cardinality(open_logs) >= _max_active_ops
        THEN ClaimFail(r, "This job already has active operators")
        ELSE jcr' = [jcr EXCEPT ![r].pc = "save", ![r].stale = FALSE,
                                ![r].time_logs = jobCard.time_logs,
                                ![r].status = jobCard.status]
  /\ UNCHANGED <<dbVars, ledger, cct, cp, queue, scanVars, batchVars, jobCard>>

\* a save that is not followed by the recount
ClaimSave_NoRecount(r) ==
  /\ jcr[r].pc = "save"
  /\ \E raises \in BOOLEAN :
       LET emp == jcr[r].employee
           rows == IF jcr[r].stale THEN jobCard.time_logs ELSE jcr[r].time_logs
           saved == Append(rows, NewLog(emp))
       IN IF raises
          THEN ClaimFail(r, "exception") /\ jobCard' = jobCard
          ELSE /\ Len(rows) < MaxLogs
               /\ jobCard' = [status |-> IF jcr[r].status = "Open"
                                         THEN "Work In Progress" ELSE jcr[r].status,
                              time_logs |-> saved]
               /\ jcr' = [Staled(jcr, r) EXCEPT
                            ![r] = [OffClaim EXCEPT !.pc = "done", !.msg = "ok",
                                                    !.employee = emp]]
  /\ UNCHANGED <<dbVars, ledger, cct, cp, queue, scanVars, batchVars>>

\* claim_job_card, lines 790-806: the log is appended and the document
\* saved; when more logs are open than allowed the log is deleted and the
\* request fails; else the request returns and its writes are committed
ClaimSave(r) ==
  /\ jcr[r].pc = "save"
  /\ \E raises \in BOOLEAN :
       LET emp == jcr[r].employee
           rows == IF jcr[r].stale THEN jobCard.time_logs ELSE jcr[r].time_logs
           saved == Append(rows, NewLog(emp))
       IN IF raises
          THEN ClaimFail(r, "exception") /\ jobCard' = jobCard
          ELSE IF _open_log_count(saved) > _max_active_ops
          THEN ClaimFail(r, "Too many active operators on this job") /\ jobCard' = jobCard
          ELSE /\ Len(rows) < MaxLogs
               /\ jobCard' = [status |-> IF jcr[r].status = "Open"
                                         THEN "Work In Progress" ELSE jcr[r].status,
                              time_logs |-> saved]
               /\ jcr' = [Staled(jcr, r) EXCEPT
                            ![r] = [OffClaim EXCEPT !.pc = "done", !.msg = "ok",
                                                    !.employee = emp]]
  /\ UNCHANGED <<dbVars, ledger, cct, cp, queue, scanVars, batchVars>>

claim_job_card(r) == ClaimLoad(r) \/ ClaimSave(r)

\* leave_job_card(job_card, employee): an open log of the employee is
\* closed; the card goes On Hold when no log stays open
leave_job_card(emp) ==
  /\ \E i \in OpenLogs(jobCard.time_logs) :
       /\ jobCard.time_logs[i].employee = emp
       /\ LET logs == CloseLogs(jobCard.time_logs, {i})
          IN jobCard' = [status |-> IF OpenLogs(logs) = {} THEN "On Hold"
                                    ELSE jobCard.status,
                         time_logs |-> logs]
  /\ UNCHANGED <<dbVars, ledger, cct, cp, queue, scanVars, batchVars, jcr>>

\* set_card_status(job_card, action, employee).  Start adds a log for an
\* employee who has none open, if the job has room, or a log without
\* employee when nobody is on the job.  Pause and Stop set to_time on the
\* stored rows and then save the document loaded before, so the rows end
\* closed or as loaded.  An unknown action and a Start on a full job throw.
set_card_status(action, emp) ==
  /\ action \in {"Start", "Pause", "Stop"}
  /\ LET logs == jobCard.time_logs
         open_for_emp == {i \in OpenLogs(logs) : logs[i].employee = emp}
     IN IF action = "Start"
        THEN IF emp # NULL
             THEN IF open_for_emp = {}
                  THEN /\ _open_log_count(logs) < _max_active_ops
                       /\ Len(logs) < MaxLogs
                       /\ jobCard' = [status |-> "Work In Progress",
                                      time_logs |-> Append(logs, NewLog(emp))]
                  ELSE jobCard' = [jobCard EXCEPT !.status = "Work In Progress"]
             ELSE IF OpenLogs(logs) = {}
                  THEN /\ Len(logs) < MaxLogs
                       /\ jobCard' = [status |-> "Work In Progress",
                                      time_logs |-> Append(logs, NewLog(NULL))]
                  ELSE jobCard' = [jobCard EXCEPT !.status = "Work In Progress"]
        ELSE \E kept \in BOOLEAN, i \in open_for_emp \cup {0} :
               /\ (i = 0) = (open_for_emp = {})
               /\ LET rows == IF emp # NULL THEN {i} \ {0} ELSE OpenLogs(logs)
                  IN jobCard' = [status |-> "On Hold",
                                 time_logs |-> IF kept THEN CloseLogs(logs, rows)
                                               ELSE logs]
  /\ jcr' = Staled(jcr, NULL)
  /\ UNCHANGED <<dbVars, ledger, cct, cp, queue, scanVars, batchVars>>

\* an open Job Card without time logs and two claim_job_card requests
InitCard ==
  /\ workOrder = [w \in WOs |->
       WorkOrderRow([planned_start_date |-> 1, creation |-> 1], 1, "WIP", NULL)]
  /\ bom = FlatBom(Quantum, 0)
  /\ lineWarehouseMap = EmptyMap
  /\ factorySettings = NoValidation
  /\ itemMeta = [i \in Items |-> [has_batch_no |-> FALSE]]
  /\ ledger = <<>>
  /\ cct = [c \in Calls |-> OffCall]
  /\ cp = OffClose
  /\ queue = EmptyMap
  /\ cache = {}
  /\ scan = [s \in Scans |-> OffScan]
  /\ batch = {}
  /\ batch_code = NULL
  /\ jobCard = [status |-> "Open", time_logs |-> <<>>]
  /\ \E emp \in [Claims -> Emps] :
       jcr = [r \in Claims |-> [OffClaim EXCEPT !.pc = "idle", !.employee = emp[r]]]

NextCard ==
  \/ \E r \in Claims : claim_job_card(r)
  \/ \E emp \in Emps : leave_job_card(emp)
  \/ \E action \in {"Start", "Pause", "Stop"}, emp \in Emps \cup {NULL} :
       set_card_status(action, emp)

SpecCard == InitCard /\ [][NextCard]_vars

----------------------------------------------------------------------------
(* C30: scans that follow each other *)

\* scan_material requests handled one after the other
NextScanSeq ==
  \E s \in Scans :
     /\ \A t \in Scans \ {s} : scan[t].pc \in {"idle", "done"}
     /\ scan_material(s)

SpecScanSeq == InitScan /\ [][NextScanSeq]_vars

\* the quantity of an item consumed for a work order by accepted scans
ScanConsumed(w, item) ==
  LET rows == {r \in AllLines(ledger) :
                 /\ ledger[r[1]].request \in Scans
                 /\ ledger[r[1]].work_order = w
                 /\ ledger[r[1]].items[r[2]].item_code = item}
  IN SumOver(rows, [r \in rows |-> ledger[r[1]].items[r[2]].qty])

\* C30: the quantity of a BOM item consumed by accepted scans for a work
\* order is at most threshold_pct percent of the quantity the BOM requires
\* for the order, and a scan answered 'Excessive quantity' has no stock entry
C30_WithinThreshold ==
  /\ \A w \in WOs, item \in Items :
        bom.item[item].qty > 0 =>
          100 * ScanConsumed(w, item)
            <= threshold_pct * bom.item[item].qty * workOrder[w].qty
  /\ \A s \in Scans :
        (scan[s].pc = "done" /\ scan[s].msg = "Excessive quantity") =>
          \A e \in DOMAIN ledger : ledger[e].request # s

\* a scan was answered 'Excessive quantity' after an accepted scan: with its
\* quantity the consumption would have passed the threshold
C30_Witness ==
  \E s \in Scans :
     /\ scan[s].pc = "done" /\ scan[s].msg = "Excessive quantity"
     /\ LET w == scan[s].work_order
            parsed == _parse_gs1_or_basic(scan[s].code)
        IN /\ ScanConsumed(w, parsed.item_code) > 0
           /\ 100 * (ScanConsumed(w, parsed.item_code) + parsed.qty)
                > threshold_pct * bom.item[parsed.item_code].qty * workOrder[w].qty

====
